---- MODULE Spec2Model ----
(***************************************************************************)
(* Farm2Home ML service: the dynamic-pricing core of                       *)
(* src/backend/ml_service/app.py (predict_optimal_discount_fastapi and the *)
(* /predict_dynamic_pricing endpoint around it) as a state machine over    *)
(* the shared prediction table, with concurrent requests.                  *)
(*                                                                         *)
(* Numbers.  The code computes in IEEE doubles.  The model computes the    *)
(* same expressions in exact rational arithmetic: a real is a reduced      *)
(* fraction <<n, d>> with d > 0, and the revenue products, which do not    *)
(* fit TLC's 32-bit integers, are fractions of arbitrary-precision         *)
(* naturals (little-endian sequences of base-10000 limbs).  Representation *)
(* error of the doubles is therefore abstracted away; round(x, 2) is       *)
(* round-half-even on the exact value.                                     *)
(***************************************************************************)
EXTENDS Integers, Sequences, FiniteSets, TLC

(***************************************************************************)
(* Exact rationals over TLC integers                                       *)
(***************************************************************************)
Abs(x) == IF x < 0 THEN -x ELSE x

RECURSIVE GCD(_, _)
GCD(a, b) == IF b = 0 THEN a ELSE GCD(b, a % b)

Rat(n, d) ==
    LET g == GCD(Abs(n), Abs(d))
        s == IF d < 0 THEN -1 ELSE 1
    IN  <<(s * n) \div g, (s * d) \div g>>

Int2Rat(n) == <<n, 1>>
RAdd(a, b) == Rat(a[1] * b[2] + b[1] * a[2], a[2] * b[2])
RSub(a, b) == Rat(a[1] * b[2] - b[1] * a[2], a[2] * b[2])
RMul(a, b) ==
    \* cross-cancel first, so that the products stay small
    LET g1 == GCD(Abs(a[1]), b[2])
        g2 == GCD(Abs(b[1]), a[2])
    IN  <<(a[1] \div g1) * (b[1] \div g2), (a[2] \div g2) * (b[2] \div g1)>>
RDiv(a, b) == RMul(a, IF b[1] < 0 THEN <<-b[2], -b[1]>> ELSE <<b[2], b[1]>>)
RNeg(a) == <<-a[1], a[2]>>
RAbs(a) == <<Abs(a[1]), a[2]>>
RLt(a, b) == a[1] * b[2] < b[1] * a[2]
RLe(a, b) == a[1] * b[2] <= b[1] * a[2]
RGt(a, b) == RLt(b, a)
RGe(a, b) == RLe(b, a)
\* Python's min(x, y) returns y only when y < x, max(x, y) only when y > x.
RMin(a, b) == IF RLt(b, a) THEN b ELSE a
RMax(a, b) == IF RGt(b, a) THEN b ELSE a

\* round(x, 2) of a rational that fits the integers: half-even on the cents.
RRound2(a) ==
    LET n == Abs(a[1]) * 100
        q == n \div a[2]
        r == n % a[2]
        k == IF 2 * r > a[2] THEN q + 1
             ELSE IF 2 * r < a[2] THEN q
             ELSE IF q % 2 = 0 THEN q ELSE q + 1
    IN  Rat(IF a[1] < 0 THEN -k ELSE k, 100)

(***************************************************************************)
(* Arbitrary-precision naturals: little-endian limbs, no leading zeros     *)
(***************************************************************************)
Base == 10000

RECURSIVE BigOf(_)
BigOf(n) == IF n = 0 THEN <<>> ELSE <<n % Base>> \o BigOf(n \div Base)

RECURSIVE BigAddC(_, _, _)
BigAddC(a, b, c) ==
    IF a = <<>> /\ b = <<>> THEN (IF c = 0 THEN <<>> ELSE <<c>>)
    ELSE LET x == IF a = <<>> THEN 0 ELSE Head(a)
             y == IF b = <<>> THEN 0 ELSE Head(b)
             s == x + y + c
         IN  <<s % Base>> \o BigAddC(IF a = <<>> THEN <<>> ELSE Tail(a),
                                     IF b = <<>> THEN <<>> ELSE Tail(b),
                                     s \div Base)
BigAdd(a, b) == BigAddC(a, b, 0)

\* a * k + c for 0 <= k, c <= 200000
RECURSIVE BigMulInt(_, _, _)
BigMulInt(a, k, c) ==
    IF a = <<>> THEN BigOf(c)
    ELSE LET s == Head(a) * k + c
         IN  <<s % Base>> \o BigMulInt(Tail(a), k, s \div Base)

BigShift(a) == IF a = <<>> THEN <<>> ELSE <<0>> \o a

RECURSIVE BigMul(_, _)
BigMul(a, b) ==
    IF a = <<>> \/ b = <<>> THEN <<>>
    ELSE BigAdd(BigMulInt(a, Head(b), 0), BigShift(BigMul(a, Tail(b))))

RECURSIVE BigCmpAt(_, _, _)
BigCmpAt(a, b, i) ==
    IF i = 0 THEN 0
    ELSE IF a[i] < b[i] THEN -1
    ELSE IF a[i] > b[i] THEN 1
    ELSE BigCmpAt(a, b, i - 1)
\* -1, 0, 1 as a < b, a = b, a > b
BigCmp(a, b) ==
    IF Len(a) < Len(b) THEN -1
    ELSE IF Len(a) > Len(b) THEN 1
    ELSE BigCmpAt(a, b, Len(a))

RECURSIVE BigToInt(_)
BigToInt(a) == IF a = <<>> THEN 0 ELSE Head(a) + Base * BigToInt(Tail(a))

\* <<a \div k, a % k>> for a factor 0 < k <= 200000
RECURSIVE BigTrim(_)
BigTrim(a) ==
    IF a = <<>> \/ a[Len(a)] # 0 THEN a ELSE BigTrim(SubSeq(a, 1, Len(a) - 1))

RECURSIVE BigDivAt(_, _, _, _)
BigDivAt(a, k, i, r) ==
    IF i = 0 THEN <<<<>>, r>>
    ELSE LET cur == r * Base + a[i]
             low == BigDivAt(a, k, i - 1, cur % k)
         IN  <<Append(low[1], cur \div k), low[2]>>
BigDivInt(a, k) ==
    LET qr == BigDivAt(a, k, Len(a), 0) IN <<BigTrim(qr[1]), qr[2]>>

RECURSIVE BigMulAll(_, _)
BigMulAll(a, ks) == IF ks = <<>> THEN a ELSE BigMulAll(BigMulInt(a, Head(ks), 0), Tail(ks))

\* <<floor(a / (k1 * ... * kn)), whether the division is exact>>
RECURSIVE BigDivAll(_, _)
BigDivAll(a, ks) ==
    IF ks = <<>> THEN <<a, TRUE>>
    ELSE LET qr == BigDivInt(a, Head(ks))
             rest == BigDivAll(qr[1], Tail(ks))
         IN  <<rest[1], rest[2] /\ qr[2] = 0>>

(***************************************************************************)
(* Wide rationals [sgn, num, dens]: sgn in {-1, 0, 1}, num a natural, the  *)
(* denominator the product of the factors dens (each in 1..200000)         *)
(***************************************************************************)
Wide(a) ==
    [sgn |-> IF a[1] < 0 THEN -1 ELSE IF a[1] = 0 THEN 0 ELSE 1,
     num |-> BigOf(Abs(a[1])), dens |-> IF a[2] = 1 THEN <<>> ELSE <<a[2]>>]
WMul(x, y) ==
    [sgn |-> x.sgn * y.sgn, num |-> BigMul(x.num, y.num), dens |-> x.dens \o y.dens]
\* -1, 0, 1 as x < y, x = y, x > y
WCmp(x, y) ==
    IF x.sgn # y.sgn THEN (IF x.sgn < y.sgn THEN -1 ELSE 1)
    ELSE IF x.sgn = 0 THEN 0
    ELSE x.sgn * BigCmp(BigMulAll(x.num, y.dens), BigMulAll(y.num, x.dens))
WGt(x, y) == WCmp(x, y) = 1

\* round(x, 2) of a wide rational below 2^30 / 200: half-even on the cents.
\* With m = floor(200 x): x is in [m/2, (m+1)/2) cents.
WRound2(x) ==
    LET d == BigDivAll(BigMulInt(x.num, 200, 0), x.dens)
        m == BigToInt(d[1])
        q == m \div 2
        k == IF m % 2 = 0 THEN q
             ELSE IF ~d[2] THEN q + 1
             ELSE IF q % 2 = 0 THEN q ELSE q + 1
    IN  Rat(x.sgn * k, 100)

WScale(x, k) == [x EXCEPT !.num = BigMulInt(x.num, k, 0)]
\* x + y for x, y >= 0
WAddPos(x, y) ==
    LET n == BigAdd(BigMulAll(x.num, y.dens), BigMulAll(y.num, x.dens))
    IN  [sgn |-> IF n = <<>> THEN 0 ELSE 1, num |-> n, dens |-> x.dens \o y.dens]

(***************************************************************************)
(* Optional values (Optional[int] = None)                                  *)
(***************************************************************************)
None == <<>>
Some(x) == <<x>>

(***************************************************************************)
(* Elasticity model (app.py 596-633)                                       *)
(***************************************************************************)
\* str.lower() on the category strings the model draws from
Lower(s) ==
    CASE s = "Vegetables" -> "vegetables"
      [] s = "DAIRY" -> "dairy"
      [] OTHER -> s

category_multipliers ==
    [vegetables |-> <<11, 10>>, fruits |-> <<1, 1>>, dairy |-> <<9, 10>>,
     grains |-> <<17, 20>>, spices |-> <<6, 5>>, pulses |-> <<9, 10>>,
     oil |-> <<1, 1>>, nuts |-> <<23, 20>>]

category_multiplier(category) ==
    IF Lower(category) \in DOMAIN category_multipliers
    THEN category_multipliers[Lower(category)]
    ELSE <<1, 1>>

price_factor(base_price) ==
    RMin(<<3, 2>>, RMax(<<1, 2>>, RDiv(base_price, <<50, 1>>)))

\* the tiers with the coefficients of the two middle tiers exchanged
tier_elasticity_exchanged(base_price, past_sales_volume) ==
    IF RGt(past_sales_volume, <<500, 1>>) THEN RMul(<<-2, 1>>, price_factor(base_price))
    ELSE IF RGt(past_sales_volume, <<100, 1>>) THEN RMul(<<-5, 2>>, price_factor(base_price))
    ELSE IF RGt(past_sales_volume, <<0, 1>>) THEN RMul(<<-11, 5>>, price_factor(base_price))
    ELSE RMul(<<-23, 10>>, price_factor(base_price))
\* base_elasticity before the category multiplier (lines 607-619)
tier_elasticity(base_price, past_sales_volume) ==
    IF RGt(past_sales_volume, <<500, 1>>) THEN RMul(<<-2, 1>>, price_factor(base_price))
    ELSE IF RGt(past_sales_volume, <<100, 1>>) THEN RMul(<<-11, 5>>, price_factor(base_price))
    ELSE IF RGt(past_sales_volume, <<0, 1>>) THEN RMul(<<-5, 2>>, price_factor(base_price))
    ELSE RMul(<<-23, 10>>, price_factor(base_price))

\* the baseline volume without the floors 15, 8 and 5
base_quantity_unfloored(past_sales_volume) ==
    IF RGt(past_sales_volume, <<500, 1>>) THEN RDiv(past_sales_volume, <<40, 1>>)
    ELSE IF RGt(past_sales_volume, <<100, 1>>) THEN RDiv(past_sales_volume, <<25, 1>>)
    ELSE IF RGt(past_sales_volume, <<0, 1>>) THEN RDiv(past_sales_volume, <<15, 1>>)
    ELSE <<6, 1>>
\* base_quantity (lines 607-619)
base_quantity(past_sales_volume) ==
    IF RGt(past_sales_volume, <<500, 1>>)
    THEN RMax(<<15, 1>>, RDiv(past_sales_volume, <<40, 1>>))
    ELSE IF RGt(past_sales_volume, <<100, 1>>)
    THEN RMax(<<8, 1>>, RDiv(past_sales_volume, <<25, 1>>))
    ELSE IF RGt(past_sales_volume, <<0, 1>>)
    THEN RMax(<<5, 1>>, RDiv(past_sales_volume, <<15, 1>>))
    ELSE <<6, 1>>

\* base_elasticity after `base_elasticity *= category_multiplier` (line 633)
base_elasticity(base_price, category, past_sales_volume) ==
    RMul(tier_elasticity(base_price, past_sales_volume), category_multiplier(category))

(***************************************************************************)
(* Revenue grid search (app.py 657-732)                                    *)
(***************************************************************************)
\* np.arange(0, 31, 0.5): 0.0, 0.5, ..., 30.5
GridStart == 0
GridStop == 31
\* the grid in steps of ten: 0, 10, 20, 30
discount_range_by_tens == [i \in 1..4 |-> Rat(10 * (i - 1), 1)]
discount_range == [i \in 1..(2 * (GridStop - GridStart)) |-> Rat(2 * GridStart + i - 1, 2)]

discounted_price_at(base_price, discount_pct) ==
    RMul(base_price, RSub(<<1, 1>>, RDiv(discount_pct, <<100, 1>>)))

\* the sensitivity with its floor lowered from 0.8 to 0.5
price_sensitivity_floor_half(base_price) ==
    RMin(<<3, 2>>, RMax(<<1, 2>>, RDiv(base_price, <<40, 1>>)))
\* lines 677 and 809: min(1.5, max(0.8, base_price / 40))
price_sensitivity(base_price) ==
    RMin(<<3, 2>>, RMax(<<4, 5>>, RDiv(base_price, <<40, 1>>)))

\* expected_quantity = base_quantity * quantity_elasticity_boost * conversion_boost
expected_quantity(base_price, elasticity_b, quantity_b, discount_pct) ==
    LET price_change_pct == RDiv(discount_pct, <<100, 1>>)
        elasticity_magnitude == RAbs(elasticity_b)
        quantity_elasticity_boost ==
            RAdd(<<1, 1>>, RMul(elasticity_magnitude, price_change_pct))
        conversion_boost ==
            RAdd(<<1, 1>>, RMul(RMul(price_change_pct, <<6, 5>>), price_sensitivity(base_price)))
    IN  WMul(WMul(Wide(quantity_b), Wide(quantity_elasticity_boost)), Wide(conversion_boost))

\* expected_revenue_direct = discounted_price * expected_quantity (line 707)
expected_revenue_direct(base_price, elasticity_b, quantity_b, discount_pct) ==
    WMul(Wide(discounted_price_at(base_price, discount_pct)),
         expected_quantity(base_price, elasticity_b, quantity_b, discount_pct))

\* the direct revenue weighted by the scorer's estimate
final_expected_revenue_weighted(direct, predicted_revenue_model) ==
    WMul(direct, Wide(<<predicted_revenue_model, 1>>))
\* the scorer's estimate taken as the revenue of the candidate
final_expected_revenue_from_scorer(direct, predicted_revenue_model) ==
    Wide(<<predicted_revenue_model, 1>>)
\* final_expected_revenue = expected_revenue_direct (line 712): the scorer's
\* estimate predicted_revenue_model is computed and not used
final_expected_revenue(direct, predicted_revenue_model) == direct

\* one pass of the loop of lines 661-712 for the i-th candidate
grid_candidate(base_price, elasticity_b, quantity_b, predicted, i) ==
    [discount |-> discount_range[i],
     revenue |-> final_expected_revenue(
                     expected_revenue_direct(base_price, elasticity_b, quantity_b,
                                             discount_range[i]),
                     predicted),
     discounted_price |-> discounted_price_at(base_price, discount_range[i])]

\* the loop keeping the candidates whose revenue is not negative
revenue_predictions_nonnegative(base_price, elasticity_b, quantity_b, predicted) ==
    SelectSeq([i \in 1..Len(discount_range) |->
                   grid_candidate(base_price, elasticity_b, quantity_b, predicted, i)],
              LAMBDA row : row.revenue.sgn >= 0)
\* the loop of lines 661-719: the candidates with positive revenue, in grid order
revenue_predictions(base_price, elasticity_b, quantity_b, predicted) ==
    SelectSeq([i \in 1..Len(discount_range) |->
                   grid_candidate(base_price, elasticity_b, quantity_b, predicted, i)],
              LAMBDA row : row.revenue.sgn > 0)

\* the last row holding the maximum
idxmax_last(rows) ==
    CHOOSE i \in 1..Len(rows) :
        /\ \A j \in 1..Len(rows) : ~WGt(rows[j].revenue, rows[i].revenue)
        /\ \A j \in (i + 1)..Len(rows) : WGt(rows[i].revenue, rows[j].revenue)
\* revenue_df['revenue'].idxmax(): the first row holding the maximum
idxmax(rows) ==
    CHOOSE i \in 1..Len(rows) :
        /\ \A j \in 1..Len(rows) : ~WGt(rows[j].revenue, rows[i].revenue)
        /\ \A j \in 1..(i - 1) : WGt(rows[i].revenue, rows[j].revenue)

\* revenue_df.nlargest(2, 'revenue')['revenue'].iloc[-1]: the largest revenue
\* left when one row holding the maximum is set aside (needs two rows)
second_largest(rows) ==
    LET m == idxmax(rows)
        others == SubSeq(rows, 1, m - 1) \o SubSeq(rows, m + 1, Len(rows))
    IN  others[idxmax(others)].revenue

\* the thresholds taken inclusively: revenue_diff_pct >= t
revenue_diff_exceeds_inclusive(max_revenue, second_max_revenue, t) ==
    ~WGt(WAddPos(WScale(second_max_revenue, 100 + t), Wide(Rat(t, 1000000))),
         WScale(max_revenue, 100))
\* revenue_diff_pct > t, with revenue_diff_pct =
\* ((max - second) / (second + 1e-6)) * 100 and second + 1e-6 > 0
revenue_diff_exceeds(max_revenue, second_max_revenue, t) ==
    WGt(WScale(max_revenue, 100),
        WAddPos(WScale(second_max_revenue, 100 + t), Wide(Rat(t, 1000000))))

confidence_of(rows) ==
    LET max_revenue == rows[idxmax(rows)].revenue
        second_max_revenue == IF Len(rows) > 1 THEN second_largest(rows) ELSE max_revenue
    IN  IF revenue_diff_exceeds(max_revenue, second_max_revenue, 10) THEN "High"
        ELSE IF revenue_diff_exceeds(max_revenue, second_max_revenue, 5) THEN "Medium"
        ELSE "Low"

(***************************************************************************)
(* Historical aggregator: the three reads of the prediction table          *)
(* (app.py 540-594, 636-653).  A table is a sequence of rows in insertion  *)
(* order (the AUTOINCREMENT id, which is also the createdAt order).        *)
(***************************************************************************)
SameNameLimit == 50

RECURSIVE Reverse(_)
Reverse(q) == IF q = <<>> THEN <<>> ELSE Append(Reverse(Tail(q)), Head(q))

\* the values v of q from the i-th on with v > 0, in order
Filter(q, i) == SelectSeq(SubSeq(q, i, Len(q)), LAMBDA v : RGt(v, <<0, 1>>))

\* sum, max and min of a list, computed by halves (the recursion over 50 rows
\* stays shallow; the sums are exact, so the grouping does not matter)
RECURSIVE RSum(_)
RSum(q) ==
    IF q = <<>> THEN <<0, 1>>
    ELSE IF Len(q) = 1 THEN q[1]
    ELSE RAdd(RSum(SubSeq(q, 1, Len(q) \div 2)), RSum(SubSeq(q, Len(q) \div 2 + 1, Len(q))))

RECURSIVE RMaxOf(_)
RMaxOf(q) ==
    IF Len(q) = 1 THEN q[1]
    ELSE RMax(RMaxOf(SubSeq(q, 1, Len(q) \div 2)), RMaxOf(SubSeq(q, Len(q) \div 2 + 1, Len(q))))

RECURSIVE RMinOf(_)
RMinOf(q) ==
    IF Len(q) = 1 THEN q[1]
    ELSE RMin(RMinOf(SubSeq(q, 1, Len(q) \div 2)), RMinOf(SubSeq(q, Len(q) \div 2 + 1, Len(q))))

\* SELECT ... WHERE product_name = ? AND product_id != ?
\* ORDER BY createdAt DESC LIMIT 50
same_name_products(table, product_name, product_id) ==
    LET match(r) == r.product_name = product_name /\ r.product_id # product_id
        rows == Reverse(SelectSeq(table, match))
    IN  SubSeq(rows, 1, IF Len(rows) < SameNameLimit THEN Len(rows) ELSE SameNameLimit)

\* the same-name statistics as the code leaves them before any row is read
same_name_default ==
    [same_name_count |-> 0, same_name_sales |-> <<>>, same_name_prices |-> <<>>,
     same_name_sales_avg |-> <<0, 1>>, same_name_sales_max |-> <<0, 1>>,
     same_name_sales_min |-> <<0, 1>>]

\* rows of equal createdAt (CURRENT_TIMESTAMP counts seconds) have no order
\* among themselves under ORDER BY createdAt DESC: the rows of a table whose
\* createdAt does not decrease along the insertion order, newest first, the
\* rows of one second in insertion order or in its reverse
newest_first(rows, ties_reversed) ==
    LET n == Len(rows)
        \* the place of row i: after the rows created later and after the rows
        \* of its second that the tie order puts first
        place(i) ==
            Cardinality({j \in 1..n : rows[j].createdAt > rows[i].createdAt})
            + Cardinality({j \in 1..n : /\ rows[j].createdAt = rows[i].createdAt
                                        /\ IF ties_reversed THEN j >= i ELSE j <= i})
    IN  [k \in 1..n |-> rows[CHOOSE i \in 1..n : place(i) = k]]

\* the fetch in the reverse order: ORDER BY createdAt ASC LIMIT 50
same_name_fetch_oldest_first(table, product_name, product_id, ties_reversed) ==
    LET match(r) == r.product_name = product_name /\ r.product_id # product_id
        newest == newest_first(SelectSeq(table, match), ties_reversed)
        rows == [k \in 1..Len(newest) |-> newest[Len(newest) + 1 - k]]
    IN  SubSeq(rows, 1, IF Len(rows) < SameNameLimit THEN Len(rows) ELSE SameNameLimit)
\* the SELECT of lines 546-554 on a table whose rows carry their createdAt
same_name_fetch(table, product_name, product_id, ties_reversed) ==
    LET match(r) == r.product_name = product_name /\ r.product_id # product_id
        rows == newest_first(SelectSeq(table, match), ties_reversed)
    IN  SubSeq(rows, 1, IF Len(rows) < SameNameLimit THEN Len(rows) ELSE SameNameLimit)

\* lines 557-565, from the rows fetched
same_name_stats_of(rows) ==
    LET sales == Filter([i \in 1..Len(rows) |-> rows[i].past_sales_volume], 1)
        prices == Filter([i \in 1..Len(rows) |-> rows[i].base_price], 1)
    IN  IF Len(rows) > 0
        THEN [same_name_count |-> Len(rows),
              same_name_sales |-> sales,
              same_name_prices |-> prices,
              same_name_sales_avg |->
                  IF Len(sales) > 0 THEN RDiv(RSum(sales), <<Len(sales), 1>>) ELSE <<0, 1>>,
              same_name_sales_max |-> IF Len(sales) > 0 THEN RMaxOf(sales) ELSE <<0, 1>>,
              same_name_sales_min |-> IF Len(sales) > 0 THEN RMinOf(sales) ELSE <<0, 1>>]
        ELSE same_name_default

\* lines 546-565 on a table whose rows were all created at different times
same_name_stats(table, product_name, product_id) ==
    same_name_stats_of(same_name_products(table, product_name, product_id))

DefaultPercentile == 50

\* the rank counting the values less than or equal to x
percentile_rank_inclusive(values, x) ==
    IF Cardinality(values) > 0
    THEN RMul(Rat(Cardinality({s \in values : RLe(s, x)}), Cardinality(values)), <<100, 1>>)
    ELSE <<DefaultPercentile, 1>>
\* rank of x among the distinct values, as a percentage (lines 585-591, 648-651)
percentile_rank(values, x) ==
    IF Cardinality(values) > 0
    THEN RMul(Rat(Cardinality({s \in values : RLt(s, x)}), Cardinality(values)), <<100, 1>>)
    ELSE <<DefaultPercentile, 1>>

\* SELECT DISTINCT past_sales_volume ... WHERE category = ? AND past_sales_volume > 0
category_sales(table, category) ==
    {table[i].past_sales_volume : i \in {j \in 1..Len(table) :
        table[j].category = category /\ RGt(table[j].past_sales_volume, <<0, 1>>)}}

\* SELECT DISTINCT base_price ... WHERE category = ? AND base_price > 0
category_prices(table, category) ==
    {table[i].base_price : i \in {j \in 1..Len(table) :
        table[j].category = category /\ RGt(table[j].base_price, <<0, 1>>)}}

(***************************************************************************)
(* Adjustment engine (app.py 739-801)                                      *)
(***************************************************************************)
\* Branch A with the bracket of the highest sales tested before the averages
same_name_sales_adjustment_max_first(v, st) ==
    IF v = <<0, 1>> THEN <<6, 1>>
    ELSE IF RGe(v, st.same_name_sales_max) THEN <<-4, 1>>
    ELSE IF RLt(v, st.same_name_sales_min) THEN <<5, 1>>
    ELSE IF RLt(v, RMul(st.same_name_sales_avg, <<1, 2>>)) THEN <<4, 1>>
    ELSE IF RLt(v, st.same_name_sales_avg) THEN <<5, 2>>
    ELSE IF RLt(v, RMul(st.same_name_sales_avg, <<3, 2>>)) THEN <<1, 2>>
    ELSE <<-5, 2>>
\* Branch A, sales comparison (lines 744-764); amounts in rationals
same_name_sales_adjustment(v, st) ==
    IF v = <<0, 1>> THEN <<6, 1>>
    ELSE IF RLt(v, st.same_name_sales_min) THEN <<5, 1>>
    ELSE IF RLt(v, RMul(st.same_name_sales_avg, <<1, 2>>)) THEN <<4, 1>>
    ELSE IF RLt(v, st.same_name_sales_avg) THEN <<5, 2>>
    ELSE IF RLt(v, RMul(st.same_name_sales_avg, <<3, 2>>)) THEN <<1, 2>>
    ELSE IF RGe(v, st.same_name_sales_max) THEN <<-4, 1>>
    ELSE <<-5, 2>>

\* Branch A, price comparison (lines 767-779)
same_name_price_adjustment(base_price, st) ==
    IF Len(st.same_name_prices) > 0
    THEN LET same_name_price_avg ==
                 RDiv(RSum(st.same_name_prices), <<Len(st.same_name_prices), 1>>)
             same_name_price_max == RMaxOf(st.same_name_prices)
         IN  IF RGt(base_price, same_name_price_max) THEN <<5, 2>>
             ELSE IF RGt(base_price, RMul(same_name_price_avg, <<6, 5>>)) THEN <<3, 2>>
             ELSE IF RLt(base_price, RMul(same_name_price_avg, <<4, 5>>)) THEN <<-1, 1>>
             ELSE <<0, 1>>
    ELSE <<0, 1>>

\* Branch B (lines 782-789)
category_sales_adjustment(sales_volume_percentile) ==
    IF RLt(sales_volume_percentile, <<25, 1>>) THEN <<4, 1>>
    ELSE IF RLt(sales_volume_percentile, <<50, 1>>) THEN <<2, 1>>
    ELSE IF RGe(sales_volume_percentile, <<75, 1>>) THEN <<-3, 1>>
    ELSE <<0, 1>>

\* the price position term with the threshold 75 included
price_position_adjustment_inclusive(price_percentile) ==
    IF RGe(price_percentile, <<75, 1>>) THEN <<2, 1>>
    ELSE IF RLt(price_percentile, <<25, 1>>) THEN <<-3, 2>>
    ELSE <<0, 1>>
\* lines 792-795
price_position_adjustment(price_percentile) ==
    IF RGt(price_percentile, <<75, 1>>) THEN <<2, 1>>
    ELSE IF RLt(price_percentile, <<25, 1>>) THEN <<-3, 2>>
    ELSE <<0, 1>>

\* the adjustment with Branch A taken on same_name_count alone
discount_adjustment_count_only(base_price, v, st, sales_volume_percentile, price_percentile) ==
    RAdd(IF st.same_name_count > 0
         THEN RAdd(same_name_sales_adjustment(v, st), same_name_price_adjustment(base_price, st))
         ELSE category_sales_adjustment(sales_volume_percentile),
         price_position_adjustment(price_percentile))
\* discount_adjustment as it stands at line 798
discount_adjustment(base_price, v, st, sales_volume_percentile, price_percentile) ==
    RAdd(IF st.same_name_count > 0 /\ Len(st.same_name_sales) > 0
         THEN RAdd(same_name_sales_adjustment(v, st), same_name_price_adjustment(base_price, st))
         ELSE category_sales_adjustment(sales_volume_percentile),
         price_position_adjustment(price_percentile))

MinDiscount == 5
MaxDiscount == 30
\* the clamp with its upper bound left out
clamp_discount_lower_only(d) == RMax(<<MinDiscount, 1>>, d)
\* max(5.0, min(30.0, optimal_discount)) (line 801)
clamp_discount(d) == RMax(<<MinDiscount, 1>>, RMin(<<MaxDiscount, 1>>, d))

(***************************************************************************)
(* predict_optimal_discount_fastapi from the grid loop to the returned     *)
(* dict (app.py 657-839), given what the three reads left behind           *)
(***************************************************************************)
\* lines 657-732 and 821-831: what the grid loop leaves for the rest of the
\* function.  It reads the request and the scorer's estimates, nothing else.
grid_search(base_price, category, past_sales_volume, predicted) ==
    LET rows == revenue_predictions(base_price,
                    base_elasticity(base_price, category, past_sales_volume),
                    base_quantity(past_sales_volume), predicted)
    IN  IF rows = <<>>
        THEN [empty |-> TRUE, model_optimal_discount |-> <<0, 1>>, confidence |-> "Low"]
        ELSE [empty |-> FALSE,
              model_optimal_discount |-> rows[idxmax(rows)].discount,
              confidence |-> confidence_of(rows)]

\* the revenue of the candidate that won the grid search, taken over
recomputed_revenue_of_grid_optimum(base_price, elasticity_b, quantity_b, optimal_discount) ==
    LET rows == revenue_predictions(base_price, elasticity_b, quantity_b, 0)
    IN  rows[idxmax(rows)].revenue
\* lines 803-812: revenue at the adjusted discount, by the grid's formulas
recomputed_revenue(base_price, elasticity_b, quantity_b, optimal_discount) ==
    expected_revenue_direct(base_price, elasticity_b, quantity_b, optimal_discount)

\* the selling price taken without the discount
final_discounted_price_undiscounted(base_price, optimal_discount) == base_price
\* line 804: final_discounted_price = base_price * (1 - optimal_discount / 100)
final_discounted_price(base_price, optimal_discount) ==
    discounted_price_at(base_price, optimal_discount)

\* lines 721-839, with `grid` the outcome of the loop
optimal_discount_result(inp, st, sales_volume_percentile, price_percentile, grid) ==
    LET elasticity_b == base_elasticity(inp.base_price, inp.category, inp.past_sales_volume)
        quantity_b == base_quantity(inp.past_sales_volume)
    IN  IF grid.empty
        THEN \* lines 721-725
             [degenerate |-> TRUE,
              model_optimal_discount |-> <<0, 1>>,
              discount_adjustment |-> <<0, 1>>,
              product |-> inp.product_id,
              optimal_discount |-> RRound2(<<0, 1>>),
              expected_revenue |-> RRound2(RMul(inp.base_price, quantity_b)),
              final_selling_price |-> RRound2(inp.base_price),
              confidence |-> "Low"]
        ELSE LET adjustment == discount_adjustment(inp.base_price, inp.past_sales_volume, st,
                                                   sales_volume_percentile, price_percentile)
                 optimal_discount ==
                     clamp_discount(RAdd(grid.model_optimal_discount, adjustment))
             IN  [degenerate |-> FALSE,
                  model_optimal_discount |-> grid.model_optimal_discount,
                  discount_adjustment |-> adjustment,
                  product |-> inp.product_id,
                  optimal_discount |-> RRound2(optimal_discount),
                  expected_revenue |->
                      WRound2(recomputed_revenue(inp.base_price, elasticity_b, quantity_b,
                                                 optimal_discount)),
                  final_selling_price |->
                      RRound2(final_discounted_price(inp.base_price, optimal_discount)),
                  confidence |-> grid.confidence]

(***************************************************************************)
(* The service: worker threads serving POST /predict_dynamic_pricing       *)
(***************************************************************************)
MaxRequests == 2    \* requests accepted in a run
MaxFaults == 1      \* failures of the table or of the scorer in a run

Procs == {"w1", "w2"}
\* the pool hands a request to its first idle thread
PoolOrder == [w1 |-> 1, w2 |-> 2]

\* datetime.now(): the dates at which the successive requests arrive (the
\* last one for all later arrivals)
Dates == <<[month |-> 11, weekday |-> 0], [month |-> 12, weekday |-> 5]>>

\* an explicit temporal context of a request
GivenContext == [month |-> Some(6), day_of_week |-> Some(2), is_weekend |-> Some(0)]
NoContext == [month |-> None, day_of_week |-> None, is_weekend |-> None]

Request(id, name, price, category, volume, ctx) ==
    [product_id |-> id, product_name |-> name, base_price |-> price,
     category |-> category, past_sales_volume |-> volume,
     month |-> ctx.month, day_of_week |-> ctx.day_of_week, is_weekend |-> ctx.is_weekend]

\* the request bodies the clients send (DynamicPricingRequest, lines 476-484)
Requests ==
    { Request("p1", "tomato", <<100, 1>>, "vegetables", <<0, 1>>, NoContext),
      Request("p2", "tomato", <<51, 50>>, "vegetables", <<600, 1>>, GivenContext),
      Request("p3", "", <<-1, 1>>, "misc", <<0, 1>>, GivenContext) }

\* what the regression scorer answers to the calls of one request
ScorerEstimates == {0, 1000}

\* the arguments the grid loop depends on
GridKey(inp, predicted) ==
    <<inp.base_price, inp.category, inp.past_sales_volume, predicted>>

VARIABLES
    store,             \* table dynamic_pricing_predictions, in insertion order
    artifacts_loaded,  \* model, scaler and encoder were loaded at startup
    req,               \* per worker thread: the locals of the request it serves
    responses,         \* what the callers received, in order
    accepted,          \* requests accepted so far
    faults,            \* failures injected so far
    grid_memo,         \* grid_search tabulated over the request bodies; the
                       \* loop is a pure function, evaluated once per argument
    call,              \* a function of the service evaluated on its own:
                       \* its name, its arguments and the value it returned
    chat               \* generate_gemini_response answering one message: its
                       \* locals, the calls it made and what it returned

vars == <<store, artifacts_loaded, req, responses, accepted, faults, grid_memo, call, chat>>

NoInput == Request("", "", <<0, 1>>, "", <<0, 1>>, NoContext)
NoResult ==
    [degenerate |-> FALSE, model_optimal_discount |-> <<0, 1>>,
     discount_adjustment |-> <<0, 1>>, product |-> "", optimal_discount |-> <<0, 1>>,
     expected_revenue |-> <<0, 1>>, final_selling_price |-> <<0, 1>>, confidence |-> ""]

Idle ==
    [pc |-> "idle", inp |-> NoInput,
     month |-> 0, day_of_week |-> 0, is_weekend |-> 0, category_encoded |-> 0,
     same_name |-> same_name_default,
     sales_volume_percentile |-> <<DefaultPercentile, 1>>,
     price_percentile |-> <<DefaultPercentile, 1>>,
     failed_reads |-> {}, scorer_failed |-> FALSE, saved |-> FALSE,
     seen |-> <<0, 0, 0>>,
     result |-> NoResult]

\* no function is being evaluated on its own
NoCall == [fn |-> "", args |-> <<>>, value |-> None]

\* no message is being answered
NoChat ==
    [pc |-> "idle", message |-> "", attempt |-> 0, retry_delay |-> 0,
     outcomes |-> <<>>, slept |-> <<>>, returned |-> None]

Init ==
    /\ store = <<>>
    /\ artifacts_loaded \in BOOLEAN
    /\ req = [p \in Procs |-> Idle]
    /\ responses = <<>>
    /\ accepted = 0
    /\ faults = 0
    /\ grid_memo = [k \in {GridKey(r, e) : r \in Requests, e \in ScorerEstimates} |->
                        grid_search(k[1], k[2], k[3], k[4])]
    /\ call = NoCall
    /\ chat = NoChat

\* LabelEncoder.classes_ of the loaded product encoder, and transform with the
\* fallback of lines 525-529 (codes are positions in classes_, from 0)
EncoderClasses == <<"dairy", "fruits", "vegetables">>
category_encoded_of(category) ==
    IF \E i \in 1..Len(EncoderClasses) : EncoderClasses[i] = category
    THEN (CHOOSE i \in 1..Len(EncoderClasses) : EncoderClasses[i] = category) - 1
    ELSE 0

\* lines 516-522
default_month(given, today) == IF given = None THEN today.month ELSE given[1]
default_day_of_week(given, today) == IF given = None THEN today.weekday ELSE given[1]
default_is_weekend(given, today) ==
    IF given = None THEN (IF today.weekday >= 5 THEN 1 ELSE 0) ELSE given[1]

\* the row of the INSERT of lines 863-878
history_record(inp, result) ==
    [product_id |-> inp.product_id, product_name |-> inp.product_name,
     base_price |-> inp.base_price, category |-> inp.category,
     past_sales_volume |-> inp.past_sales_volume,
     optimal_discount |-> result.optimal_discount,
     expected_revenue |-> result.expected_revenue,
     final_selling_price |-> result.final_selling_price,
     confidence |-> result.confidence]

\* an insert that replaces the earlier rows of the same product
insert_or_replace_record(table, row) ==
    Append(SelectSeq(table, LAMBDA r : r.product_id # row.product_id), row)
\* an insert that is committed twice
insert_record_twice(table, row) == Append(Append(table, row), row)
\* INSERT INTO dynamic_pricing_predictions ... ; commit
insert_record(table, row) == Append(table, row)

\* a failure of the table or of the scorer may be injected
MayFail == faults < MaxFaults

\* the caller of worker p receives a result (line 884) or HTTP 500 (lines
\* 885-894); the entry keeps the locals the request ended with
respond(log, locals, status) == Append(log, [locals EXCEPT !.pc = status])

\* datetime.now() for the request that arrives next
now == Dates[IF accepted < Len(Dates) THEN accepted + 1 ELSE Len(Dates)]

\* POST /predict_dynamic_pricing arrives and is handed to an idle
\* worker: lines 842-854 and 510-567, up to and including the same-name read
\* (the first access to the table), which is skipped for an empty product
\* name.  Without the artifacts the call raises at once (HTTP 500).
Receive(p, r, fail) ==
    /\ req[p].pc = "idle"
    /\ \A q \in Procs : PoolOrder[q] < PoolOrder[p] => req[q].pc # "idle"
    /\ accepted < MaxRequests
    /\ fail => MayFail /\ artifacts_loaded /\ r.product_name # ""
    /\ faults' = IF fail THEN faults + 1 ELSE faults
    /\ accepted' = accepted + 1
    /\ IF ~artifacts_loaded
       THEN /\ responses' = respond(responses, [Idle EXCEPT !.inp = r], "error")
            /\ req' = req
       ELSE /\ responses' = responses
            /\ req' = [req EXCEPT ![p] =
                  [Idle EXCEPT !.pc = "cat_sales", !.inp = r,
                      !.month = default_month(r.month, now),
                      !.day_of_week = default_day_of_week(r.day_of_week, now),
                      !.is_weekend = default_is_weekend(r.is_weekend, now),
                      !.category_encoded = category_encoded_of(r.category),
                      !.failed_reads = IF fail THEN {"same_name"} ELSE {},
                      !.seen[1] = IF fail \/ r.product_name = "" THEN 0 ELSE Len(store),
                      !.same_name =
                          IF fail \/ r.product_name = "" THEN same_name_default
                          ELSE same_name_stats(store, r.product_name, r.product_id)]]
    /\ UNCHANGED <<store, artifacts_loaded, grid_memo, call, chat>>

\* lines 571-594: the category sales read
ReadCategorySales(p, fail) ==
    /\ req[p].pc = "cat_sales"
    /\ fail => MayFail
    /\ faults' = IF fail THEN faults + 1 ELSE faults
    /\ req' = [req EXCEPT ![p] =
          IF fail
          THEN [@ EXCEPT !.pc = "cat_prices", !.failed_reads = @ \cup {"cat_sales"},
                   !.sales_volume_percentile = <<DefaultPercentile, 1>>]
          ELSE [@ EXCEPT !.pc = "cat_prices", !.seen[2] = Len(store),
                   !.sales_volume_percentile =
                       percentile_rank(category_sales(store, req[p].inp.category),
                                       req[p].inp.past_sales_volume)]]
    /\ UNCHANGED <<store, artifacts_loaded, responses, accepted, grid_memo, call, chat>>

\* the category price read with price_percentile left at 0 when it fails
read_category_prices_no_default(locals, table, fail) ==
    IF fail
    THEN [locals EXCEPT !.failed_reads = @ \cup {"cat_prices"},
             !.price_percentile = <<0, 1>>]
    ELSE [locals EXCEPT !.seen[3] = Len(table),
             !.price_percentile =
                 percentile_rank(category_prices(table, locals.inp.category),
                                 locals.inp.base_price)]
\* the category price read missing the row committed last
read_category_prices_stale(locals, table, fail) ==
    IF fail
    THEN [locals EXCEPT !.failed_reads = @ \cup {"cat_prices"}]
    ELSE [locals EXCEPT !.seen[3] = Len(table),
             !.price_percentile =
                 percentile_rank(category_prices(SubSeq(table, 1, Len(table) - 1),
                                                 locals.inp.category),
                                 locals.inp.base_price)]
\* lines 636-653: the category price read
read_category_prices(locals, table, fail) ==
    IF fail
    THEN [locals EXCEPT !.failed_reads = @ \cup {"cat_prices"}]
    ELSE [locals EXCEPT !.seen[3] = Len(table),
             !.price_percentile =
                 percentile_rank(category_prices(table, locals.inp.category),
                                 locals.inp.base_price)]

\* lines 636-839 and 857: the category price read, then the grid loop with
\* its scorer calls, adjustment, confidence and the returned dict.  predict()
\* raising leaves the function and the endpoint answers HTTP 500 (885-894).
GridSearch(p, fail, raises, predicted) ==
    /\ req[p].pc = "cat_prices"
    /\ fail \/ raises => MayFail
    /\ fail /\ raises => faults + 1 < MaxFaults
    /\ faults' = faults + (IF fail THEN 1 ELSE 0) + (IF raises THEN 1 ELSE 0)
    /\ LET locals == read_category_prices(req[p], store, fail)
       IN  IF raises
           THEN /\ responses' =
                       respond(responses, [locals EXCEPT !.scorer_failed = TRUE], "error")
                /\ req' = [req EXCEPT ![p] = Idle]
           ELSE /\ responses' = responses
                /\ req' = [req EXCEPT ![p] =
                      [locals EXCEPT !.pc = "save",
                          !.result = [optimal_discount_result(locals.inp, locals.same_name,
                                          locals.sales_volume_percentile,
                                          locals.price_percentile,
                                          grid_memo[GridKey(locals.inp, predicted)])
                                      EXCEPT !.product = locals.inp.product_name]]]
    /\ UNCHANGED <<store, artifacts_loaded, accepted, grid_memo, call, chat>>

\* lines 859-884: the insert, whose failure is only printed, and the return
SaveRecord(p, fail) ==
    /\ req[p].pc = "save"
    /\ fail => MayFail
    /\ faults' = IF fail THEN faults + 1 ELSE faults
    /\ store' = IF fail THEN store
                ELSE insert_record(store, history_record(req[p].inp, req[p].result))
    /\ responses' = respond(responses, [req[p] EXCEPT !.saved = ~fail], "result")
    /\ req' = [req EXCEPT ![p] = Idle]
    /\ UNCHANGED <<artifacts_loaded, accepted, grid_memo, call, chat>>

Next ==
    \/ \E p \in Procs, r \in Requests, fail \in BOOLEAN : Receive(p, r, fail)
    \/ \E p \in Procs, fail \in BOOLEAN : ReadCategorySales(p, fail)
    \/ \E p \in Procs, fail \in BOOLEAN, raises \in BOOLEAN, predicted \in ScorerEstimates :
           GridSearch(p, fail, raises, predicted)
    \/ \E p \in Procs, fail \in BOOLEAN : SaveRecord(p, fail)

Spec == Init /\ [][Next]_vars

\* lines 636-703 with a scorer that does not return: after the category price
\* read the thread enters scaler.transform / model.predict (lines 700-703),
\* which the code calls directly, without a timeout, and stays there
ScorerNeverReturns(p) ==
    /\ req[p].pc = "cat_prices"
    /\ MayFail
    /\ faults' = faults + 1
    /\ req' = [req EXCEPT ![p] =
          [read_category_prices(req[p], store, FALSE) EXCEPT !.pc = "scoring"]]
    /\ UNCHANGED <<store, artifacts_loaded, responses, accepted, grid_memo, call, chat>>

NextBlocking ==
    \/ Next
    \/ \E p \in Procs : ScorerNeverReturns(p)

\* worker p is at a point from which one of its steps can be taken: the
\* steps ReadCategorySales, GridSearch and SaveRecord have no other guard
\* than the position of the thread when nothing fails
CanStep(p) == req[p].pc \in {"cat_sales", "cat_prices", "save"}

SpecBlocking == Init /\ [][NextBlocking]_vars

(***************************************************************************)
(* The service under two products of one name and one category, whose rows *)
(* change each other's statistics: a well-selling product at the common    *)
(* price and a poorly selling one at twice the price                       *)
(***************************************************************************)
RequestsOfOneName ==
    { Request("a1", "tomato", <<100, 1>>, "vegetables", <<600, 1>>, GivenContext),
      Request("b1", "tomato", <<200, 1>>, "vegetables", <<50, 1>>, GivenContext) }

InitOneName ==
    /\ store = <<>>
    /\ artifacts_loaded = TRUE
    /\ req = [p \in Procs |-> Idle]
    /\ responses = <<>>
    /\ accepted = 0
    /\ faults = 0
    /\ grid_memo = [k \in {GridKey(r, e) : r \in RequestsOfOneName, e \in ScorerEstimates} |->
                        grid_search(k[1], k[2], k[3], k[4])]
    /\ call = NoCall
    /\ chat = NoChat

NextOneName ==
    \/ \E p \in Procs, r \in RequestsOfOneName, fail \in BOOLEAN : Receive(p, r, fail)
    \/ \E p \in Procs, fail \in BOOLEAN : ReadCategorySales(p, fail)
    \/ \E p \in Procs, fail \in BOOLEAN, raises \in BOOLEAN, predicted \in ScorerEstimates :
           GridSearch(p, fail, raises, predicted)
    \/ \E p \in Procs, fail \in BOOLEAN : SaveRecord(p, fail)

SpecOneName == InitOneName /\ [][NextOneName]_vars

(***************************************************************************)
(* The functions of the service evaluated on their own: the arguments are  *)
(* drawn at the start, one step applies the function                       *)
(***************************************************************************)
service_vars == <<store, artifacts_loaded, req, responses, accepted, faults, grid_memo, chat>>

Call(fn, args) == [fn |-> fn, args |-> args, value |-> None]
Pending(fn) == call.fn = fn /\ call.value = None
Returned(fn) == call.fn = fn /\ call.value # None

\* base prices below, at and above the bounds of price_factor and price_sensitivity
SamplePrices == {<<10, 1>>, <<51, 50>>, <<50, 1>>, <<60, 1>>, <<100, 1>>}
\* the sales volumes at the edges of the tiers
BoundaryVolumes == {0, 1, 100, 101, 500, 501}

\* two volumes v1 < v2 at one base price
TierCalls ==
    {Call("tier_elasticity", [base_price |-> b, v1 |-> <<v[1], 1>>, v2 |-> <<v[2], 1>>]) :
         b \in SamplePrices,
         v \in {w \in BoundaryVolumes \X BoundaryVolumes : w[1] < w[2]}}

EvalTierElasticity ==
    /\ Pending("tier_elasticity")
    /\ call' = [call EXCEPT !.value =
                   Some(<<tier_elasticity(call.args.base_price, call.args.v1),
                          tier_elasticity(call.args.base_price, call.args.v2)>>)]
    /\ UNCHANGED service_vars

\* rows of the table as the reads see them (the reads select product_name,
\* product_id, category, past_sales_volume and base_price only)
Row(id, name, price, category, volume) ==
    history_record(Request(id, name, price, category, volume, GivenContext), NoResult)

\* tables holding rows of the name "tomato" under other product ids
SampleTables ==
    { <<>>,
      <<Row("q1", "tomato", <<50, 1>>, "vegetables", <<100, 1>>),
        Row("q2", "tomato", <<100, 1>>, "vegetables", <<300, 1>>)>>,
      <<Row("q1", "tomato", <<20, 1>>, "vegetables", <<300, 1>>)>>,
      <<Row("q1", "tomato", <<0, 1>>, "vegetables", <<0, 1>>)>>,
      <<Row("q1", "tomato", <<200, 1>>, "vegetables", <<10, 1>>),
        Row("q2", "tomato", <<0, 1>>, "vegetables", <<10, 1>>),
        Row("q3", "tomato", <<100, 1>>, "vegetables", <<400, 1>>)>> }

\* what the same-name read leaves for product p1 named "tomato"
SampleStats == {same_name_stats(t, "tomato", "p1") : t \in SampleTables}

\* percentile ranks below, at and above the thresholds 25, 50 and 75
SamplePercentiles == {<<0, 1>>, <<24, 1>>, <<25, 1>>, <<50, 1>>, <<75, 1>>, <<76, 1>>}

SampleVolumes == {0, 50, 150, 250, 300, 600}

AdjustmentCalls ==
    {Call("discount_adjustment",
          [base_price |-> b, past_sales_volume |-> <<v, 1>>, st |-> st,
           sales_volume_percentile |-> sp, price_percentile |-> pp]) :
         b \in {<<10, 1>>, <<100, 1>>, <<150, 1>>}, v \in SampleVolumes, st \in SampleStats,
         sp \in SamplePercentiles, pp \in SamplePercentiles}

\* lines 739-795
EvalAdjustment ==
    /\ Pending("discount_adjustment")
    /\ call' = [call EXCEPT !.value =
                   Some(discount_adjustment(call.args.base_price, call.args.past_sales_volume,
                                            call.args.st, call.args.sales_volume_percentile,
                                            call.args.price_percentile))]
    /\ UNCHANGED service_vars

\* the request bodies of the service, one with base_price 0, and the two
\* with the smallest and the largest elasticity magnitude and conversion
\* coefficient: 2.0 x 0.5 x 0.85 = 0.85 with 1.2 x 0.8 = 0.96 (grains, price <=
\* 25, volume > 500) and 2.5 x 1.5 x 1.2 = 4.5 with 1.2 x 1.5 = 1.8 (spices,
\* price >= 75, 0 < volume <= 100)
PricingInputs ==
    Requests \cup {Request("p4", "tomato", <<0, 1>>, "Vegetables", <<50, 1>>, GivenContext),
                   Request("p5", "tomato", <<20, 1>>, "grains", <<600, 1>>, GivenContext),
                   Request("p6", "tomato", <<80, 1>>, "spices", <<50, 1>>, GivenContext)}

\* the same-name read is skipped for an empty product_name
ResultCalls ==
    {Call("optimal_discount_result",
          [inp |-> c[1], st |-> c[2], sales_volume_percentile |-> c[3],
           price_percentile |-> c[4], predicted |-> c[5]]) :
         c \in {d \in PricingInputs \X SampleStats \X {<<0, 1>>, <<50, 1>>, <<75, 1>>}
                       \X {<<0, 1>>, <<50, 1>>, <<75, 1>>, <<76, 1>>} \X ScorerEstimates :
                    d[1].product_name = "" => d[2] = same_name_default}}

\* lines 657-839 given what the reads left
EvalResult ==
    /\ Pending("optimal_discount_result")
    /\ call' = [call EXCEPT !.value =
                   Some(optimal_discount_result(call.args.inp, call.args.st,
                            call.args.sales_volume_percentile, call.args.price_percentile,
                            grid_memo[GridKey(call.args.inp, call.args.predicted)]))]
    /\ UNCHANGED service_vars

\* revenues of a grid in millionths: a runner-up of 0.999999, for which
\* second_max_revenue + 1e-6 = 1, under maxima at gaps of 4.99, 5, 5.01,
\* 9.99, 10, 10.01 and 100 percent; also equal maxima and single rows
GridRevenues ==
    LET tops == {1049899, 1049999, 1050099, 1099899, 1099999, 1100099, 1999999}
    IN  UNION {{<<999999, m>>, <<m, 999999>>, <<500000, m, 999999>>, <<m, 999999, 999999>>,
                <<m, m>>, <<m, 20, m>>, <<m>>} : m \in tops}

ConfidenceCalls == {Call("confidence_of", [revenues |-> q]) : q \in GridRevenues}

\* the rows of revenue_predictions holding the given revenues
rows_of(revenues) ==
    [i \in 1..Len(revenues) |->
        [discount |-> discount_range[i],
         revenue |-> [sgn |-> 1, num |-> BigOf(revenues[i]), dens |-> <<1000, 1000>>],
         discounted_price |-> <<1, 1>>]]

\* lines 821-831
EvalConfidence ==
    /\ Pending("confidence_of")
    /\ call' = [call EXCEPT !.value = Some(confidence_of(rows_of(call.args.revenues)))]
    /\ UNCHANGED service_vars

IdxmaxCalls == {Call("idxmax", [revenues |-> q]) : q \in GridRevenues}

\* lines 728-729
EvalIdxmax ==
    /\ Pending("idxmax")
    /\ call' = [call EXCEPT !.value = Some(idxmax(rows_of(call.args.revenues)))]
    /\ UNCHANGED service_vars

GridCalls ==
    {Call("grid_search", [base_price |-> r.base_price, category |-> r.category,
                          past_sales_volume |-> r.past_sales_volume, predicted |-> e]) :
         r \in PricingInputs, e \in ScorerEstimates}

\* lines 657-732: the loop over discount_range and the choice of the optimum
EvalGridSearch ==
    /\ Pending("grid_search")
    /\ call' = [call EXCEPT !.value =
                   Some([evaluated |-> discount_range,
                         grid |-> grid_search(call.args.base_price, call.args.category,
                                              call.args.past_sales_volume,
                                              call.args.predicted)])]
    /\ UNCHANGED service_vars

\* chatbot_api.py, str.lower() on the letters A-Z
UpperLetters == "ABCDEFGHIJKLMNOPQRSTUVWXYZ"
LowerLetters == "abcdefghijklmnopqrstuvwxyz"

lower_char(c) ==
    IF \E i \in 1..Len(UpperLetters) : SubSeq(UpperLetters, i, i) = c
    THEN LET i == CHOOSE j \in 1..Len(UpperLetters) : SubSeq(UpperLetters, j, j) = c
         IN  SubSeq(LowerLetters, i, i)
    ELSE c

RECURSIVE lower(_)
lower(message) ==
    IF Len(message) = 0 THEN ""
    ELSE lower_char(SubSeq(message, 1, 1)) \o lower(SubSeq(message, 2, Len(message)))

\* keyword in message_lower: substring test
Contains(message_lower, keyword) ==
    \E i \in 1..(Len(message_lower) - Len(keyword) + 1) :
        SubSeq(message_lower, i, i + Len(keyword) - 1) = keyword

\* any(keyword in message_lower for keyword in keywords)
any_keyword(message_lower, keywords) ==
    \E k \in 1..Len(keywords) : Contains(message_lower, keywords[k])

purchase_history_keywords ==
    <<"my purchase", "my order", "my orders", "my spending", "my spend",
      "highest purchase", "highest order", "most expensive", "biggest order",
      "largest order", "top purchase", "order history", "purchase history",
      "what i bought", "what i purchased", "my highest", "most i spent",
      "highest cost", "highest amount", "biggest purchase", "which product",
      "most purchased", "most bought", "favorite product", "top product",
      "what product", "product i", "most that i", "most i have">>

discount_keywords ==
    <<"discount", "discounts", "off", "deal", "deals", "sale", "sales",
      "promo", "promotion", "coupon", "coupons", "cheap", "cheaper",
      "affordable", "save", "savings", "special offer", "special price">>

purchase_words ==
    <<"my", "purchase", "order", "bought", "spent", "highest", "most", "expensive">>

churn_keywords ==
    <<"churn", "risk", "at risk", "leaving", "stop", "stopping",
      "loyal", "loyalty", "retention", "retain", "engagement",
      "active", "inactive">>

recommendation_keywords ==
    <<"recommend", "recommendation", "suggest", "suggestion",
      "what should", "what to buy", "best", "popular", "trending",
      "new products", "what products", "what items">>

cart_keywords ==
    <<"my cart", "cart", "shopping cart", "items in cart", "what in cart",
      "cart items", "cart products", "my basket", "basket">>

wishlist_keywords ==
    <<"wishlist", "wish list", "my wishlist", "saved items", "saved products",
      "favorites", "favourites", "bookmarked", "bookmarks">>

account_keywords ==
    <<"my account", "account info", "loyalty points", "points", "referral",
      "my profile", "account status", "member since">>

reviews_keywords ==
    <<"my reviews", "my feedback", "my ratings", "reviews i gave",
      "feedback i left", "my comments">>

inventory_keywords ==
    <<"inventory", "stock", "available", "availability", "in stock",
      "out of stock", "quantity", "how many", "how much", "left",
      "remaining", "stock level", "stock status", "is available",
      "do you have", "have you got", "do you sell", "can i buy">>

\* chatbot_api.py lines 207-324
detect_intent(message) ==
    LET message_lower == lower(message)
        is_purchase_query == any_keyword(message_lower, purchase_words)
    IN  IF any_keyword(message_lower, purchase_history_keywords) THEN "purchase_history"
        ELSE IF any_keyword(message_lower, cart_keywords) THEN "cart"
        ELSE IF any_keyword(message_lower, wishlist_keywords) THEN "wishlist"
        ELSE IF any_keyword(message_lower, account_keywords) THEN "account"
        ELSE IF any_keyword(message_lower, reviews_keywords) THEN "reviews"
        ELSE IF any_keyword(message_lower, inventory_keywords) THEN "inventory"
        ELSE IF ~is_purchase_query /\ any_keyword(message_lower, discount_keywords)
             THEN "discount"
        ELSE IF any_keyword(message_lower, churn_keywords) THEN "churn"
        ELSE IF any_keyword(message_lower, recommendation_keywords) THEN "recommendation"
        ELSE "general"

\* the four test messages of the module docstring (lines 23-38) and further
\* messages, one or more for every return of detect_intent
Messages ==
    {"Can I get a discount on organic apples?",
     "What's my churn risk?",
     "What products do you recommend?",
     "What are your delivery times?",
     "Recommend something",
     "Any suggestion for dinner?",
     "what items are trending",
     "WHAT SHOULD I COOK",
     "Which product is the best?",
     "the best of my garden",
     "what should i add to my cart",
     "popular items on my wishlist",
     "best way to earn points",
     "recommend from my reviews i gave",
     "is the popular mango in stock",
     "best deal today",
     "popular with loyal customers",
     "show my orders",
     "hello"}

IntentCalls == {Call("detect_intent", [message |-> m]) : m \in Messages}

EvalDetectIntent ==
    /\ Pending("detect_intent")
    /\ call' = [call EXCEPT !.value = Some(detect_intent(call.args.message))]
    /\ UNCHANGED service_vars

\* a row of the table with the second of its creation
StampedRow(id, name, price, volume, createdAt) ==
    [product_id |-> id, product_name |-> name, base_price |-> <<price, 1>>,
     category |-> "vegetables", past_sales_volume |-> <<volume, 1>>, createdAt |-> createdAt]

\* rows named "tomato" of another product, created one per second: the oldest
\* has the smallest sales volume and the second oldest the largest price
ManyRows(n) ==
    [i \in 1..n |->
        StampedRow("q1", "tomato", IF i = 2 THEN 900 ELSE 40 + i, IF i = 1 THEN 1 ELSE 100 + i, i)]

\* tables for the same-name read of product p1 named "tomato": more rows of
\* the name than the limit, followed by rows of p1 itself and of another
\* name; the two oldest of one row more than the limit created in the same
\* second; fewer rows than the limit with sales and prices that are not
\* positive; rows of p1 only; no rows
StampedTables ==
    { ManyRows(SameNameLimit + 2)
          \o <<StampedRow("p1", "tomato", 5000, 5000, 90),
               StampedRow("q2", "potato", 7000, 7000, 91)>>,
      <<StampedRow("q1", "tomato", 900, 1, 1), StampedRow("q2", "tomato", 10, 1000, 1)>>
          \o [i \in 1..(SameNameLimit - 1) |->
                  StampedRow("q1", "tomato", 40 + i, 100 + i, 1 + i)],
      <<StampedRow("q1", "tomato", 0, 0, 1), StampedRow("q2", "tomato", -5, 300, 1),
        StampedRow("q3", "tomato", 60, -2, 2), StampedRow("p1", "tomato", 1, 1, 3),
        StampedRow("q4", "tomato", 80, 200, 3)>>,
      <<StampedRow("q1", "tomato", 0, 0, 1)>>,
      <<StampedRow("p1", "tomato", 50, 100, 1), StampedRow("p1", "tomato", 50, 100, 2)>>,
      <<>> }

SameNameCalls ==
    {Call("same_name_stats", [table |-> t, product_name |-> "tomato", product_id |-> "p1"]) :
         t \in StampedTables}

\* lines 546-565: the rows fetched and the statistics computed from them
EvalSameName ==
    /\ Pending("same_name_stats")
    /\ \E fetched \in {same_name_fetch(call.args.table, call.args.product_name,
                                       call.args.product_id, ties_reversed) :
                           ties_reversed \in BOOLEAN} :
           call' = [call EXCEPT !.value =
                       Some([fetched |-> fetched, stats |-> same_name_stats_of(fetched)])]
    /\ UNCHANGED service_vars

\* tables for the category reads: values that occur twice, values that are
\* not positive, rows of other categories and rows of the request's product
CategoryTables ==
    { <<>>,
      <<Row("q1", "tomato", <<50, 1>>, "vegetables", <<100, 1>>),
        Row("q2", "onion", <<50, 1>>, "vegetables", <<100, 1>>),
        Row("q3", "leek", <<20, 1>>, "vegetables", <<300, 1>>),
        Row("q4", "kale", <<0, 1>>, "vegetables", <<0, 1>>),
        Row("q5", "milk", <<30, 1>>, "dairy", <<200, 1>>)>>,
      <<Row("q1", "milk", <<30, 1>>, "dairy", <<200, 1>>),
        Row("q2", "curd", <<10, 1>>, "dairy", <<50, 1>>)>>,
      <<Row("q1", "kale", <<-1, 1>>, "vegetables", <<0, 1>>),
        Row("q2", "leek", <<0, 1>>, "vegetables", <<-5, 1>>)>>,
      <<Row("p1", "tomato", <<40, 1>>, "vegetables", <<150, 1>>),
        Row("q1", "tomato", <<60, 1>>, "vegetables", <<250, 1>>),
        Row("q2", "leek", <<80, 1>>, "vegetables", <<350, 1>>),
        Row("q3", "kale", <<51, 50>>, "vegetables", <<0, 1>>)>> }

PercentileCalls ==
    {Call("percentile_rank",
          [table |-> t, category |-> "vegetables", past_sales_volume |-> <<v, 1>>,
           base_price |-> <<b, 1>>]) :
         t \in CategoryTables, v \in {0, 100, 150, 200, 300, 400}, b \in {-1, 20, 40, 50, 90}}

\* lines 571-594 and 636-653: the two percentiles of a request
EvalPercentiles ==
    /\ Pending("percentile_rank")
    /\ call' = [call EXCEPT !.value =
                   Some([sales_volume_percentile |->
                             percentile_rank(category_sales(call.args.table, call.args.category),
                                             call.args.past_sales_volume),
                         price_percentile |->
                             percentile_rank(category_prices(call.args.table, call.args.category),
                                             call.args.base_price)])]
    /\ UNCHANGED service_vars

\* sales volumes inside the tiers, at their edges, and on both sides of the
\* volumes 600, 200 and 75 at which the floors 15, 8 and 5 stop to hold
TierVolumes == {0, 1, 50, 75, 90, 100, 101, 200, 250, 500, 501, 600, 1000}

ElasticityCalls ==
    {Call("elasticity_model", [base_price |-> b, past_sales_volume |-> <<v, 1>>]) :
         b \in SamplePrices \cup {<<25, 1>>, <<75, 1>>}, v \in TierVolumes}

\* lines 604-619: price_factor, base_elasticity and base_quantity
EvalElasticity ==
    /\ Pending("elasticity_model")
    /\ call' = [call EXCEPT !.value =
                   Some([base_elasticity |->
                             tier_elasticity(call.args.base_price, call.args.past_sales_volume),
                         base_quantity |-> base_quantity(call.args.past_sales_volume)])]
    /\ UNCHANGED service_vars

Calls ==
    TierCalls \cup AdjustmentCalls \cup ResultCalls \cup ConfidenceCalls \cup IdxmaxCalls
        \cup GridCalls \cup IntentCalls \cup SameNameCalls
        \cup PercentileCalls \cup ElasticityCalls

InitFunctions ==
    /\ store = <<>>
    /\ artifacts_loaded = TRUE
    /\ req = [p \in Procs |-> Idle]
    /\ responses = <<>>
    /\ accepted = 0
    /\ faults = 0
    /\ grid_memo = [k \in {GridKey(r, e) : r \in PricingInputs, e \in ScorerEstimates} |->
                        grid_search(k[1], k[2], k[3], k[4])]
    /\ call \in Calls
    /\ chat = NoChat

NextFunctions ==
    \/ EvalTierElasticity
    \/ EvalAdjustment
    \/ EvalResult
    \/ EvalConfidence
    \/ EvalIdxmax
    \/ EvalGridSearch
    \/ EvalDetectIntent
    \/ EvalSameName
    \/ EvalPercentiles
    \/ EvalElasticity

SpecFunctions == InitFunctions /\ [][NextFunctions]_vars

(***************************************************************************)
(* generate_gemini_response (chatbot_api.py 709-823): one message answered *)
(* by the language model, with retries on rate limiting.  A step ends      *)
(* where the coroutine awaits: the call in the executor, the sleep.        *)
(***************************************************************************)
max_retries == 2
initial_retry_delay == 2

\* messages with and without the words the fallback replies look for
ChatMessages ==
    {"What is your NAME?", "my last Order", "I bought rice", "delivery time?",
     "do you ship", "any product", "hi"}

\* what model.generate_content raised: str(e)
GeminiErrors ==
    {"429 Resource has been exhausted", "Resource Exhausted: quota", "Rate Limit reached",
     "500 Internal error", "API key not valid", "response.text needs a valid Part"}

\* what model.generate_content returned: the text accessor, and the text of
\* the first candidate where there is one
GeminiResponses ==
    {[text |-> " Fresh tomatoes are in stock. ", candidates |-> <<"Fresh tomatoes are in stock.">>],
     [text |-> "", candidates |-> <<"We deliver in 24 hours. ">>],
     [text |-> "", candidates |-> <<>>]}

GeminiOutcomes ==
    {[ok |-> TRUE, response |-> r, error |-> ""] : r \in GeminiResponses}
        \cup {[ok |-> FALSE, response |-> <<>>, error |-> e] : e \in GeminiErrors}

\* str.strip() on the blanks at both ends
RECURSIVE strip(_)
strip(text) ==
    IF Len(text) = 0 THEN text
    ELSE IF SubSeq(text, 1, 1) = " " THEN strip(SubSeq(text, 2, Len(text)))
    ELSE IF SubSeq(text, Len(text), Len(text)) = " " THEN strip(SubSeq(text, 1, Len(text) - 1))
    ELSE text

\* every failure taken for a rate limit
is_rate_limit_error_any(e) == TRUE
\* line 781, on error_str = str(e).lower()
is_rate_limit_error(e) ==
    LET error_str == lower(e)
    IN  \/ Contains(error_str, "429")
        \/ Contains(error_str, "resource exhausted")
        \/ Contains(error_str, "rate limit")

\* lines 720-730: the replies given when no model was configured
reply_without_model(message) ==
    LET m == lower(message)
    IN  IF Contains(m, "purchase") \/ Contains(m, "order") \/ Contains(m, "bought")
        THEN "I can help you with your purchase history! Please check your order history in the 'My Orders' section, or I can help you browse products."
        ELSE IF Contains(m, "delivery") \/ Contains(m, "ship")
        THEN "We typically deliver within 24-48 hours. You can track your orders in the 'My Orders' section. For specific delivery questions, please contact our support team."
        ELSE IF Contains(m, "product") \/ Contains(m, "item")
        THEN "I'd be happy to help you find products! You can browse our full catalog in the Products section. What category are you interested in?"
        ELSE "Hello! I'm your Farm2Home assistant. I can help you with product information, discounts, orders, and delivery. What would you like to know?"

\* lines 809-823: the reply of the handler `except Exception`
reply_after_error(message) ==
    LET message_lower == lower(message)
    IN  IF Contains(message_lower, "name")
        THEN "I'm your Farm2Home assistant! I'm here to help you with your grocery shopping, orders, and any questions you have about our products."
        ELSE IF Contains(message_lower, "purchase") \/ Contains(message_lower, "order")
        THEN "I can help you with your purchase history! Please check your order history in the 'My Orders' section, or I can help you browse products."
        ELSE IF Contains(message_lower, "delivery")
        THEN "We typically deliver within 24-48 hours. You can track your orders in the 'My Orders' section."
        ELSE "Hello! I'm your Farm2Home assistant. I can help you with product information, discounts, orders, and delivery. What would you like to know?"

\* lines 794-807: the text taken from the response
extract_text(response) ==
    IF response.text # "" THEN strip(response.text)
    ELSE IF Len(response.candidates) > 0 THEN strip(response.candidates[1])
    ELSE "Hello! I'm your Farm2Home assistant. How can I help you with your grocery shopping today?"

pricing_vars == <<store, artifacts_loaded, req, responses, accepted, faults, grid_memo, call>>

\* lines 709-759: a message arrives; without a model it is answered at once
StartChat(message, has_model) ==
    /\ chat.pc \in {"idle", "done"}
    /\ chat' = IF has_model
               THEN [NoChat EXCEPT !.pc = "call", !.message = message,
                                   !.retry_delay = initial_retry_delay]
               ELSE [NoChat EXCEPT !.pc = "done", !.message = message,
                                   !.returned = Some(reply_without_model(message))]
    /\ UNCHANGED pricing_vars

\* lines 771-807 and 809-823: one pass of the loop, model.generate_content
\* ending as `outcome`, up to the next sleep or to the return
CallGemini(outcome) ==
    /\ chat.pc = "call"
    /\ chat' =
         LET made == [chat EXCEPT !.outcomes = Append(@, outcome)]
         IN  IF outcome.ok
             THEN [made EXCEPT !.pc = "done",
                               !.returned = Some(extract_text(outcome.response))]
             ELSE IF is_rate_limit_error(outcome.error) /\ chat.attempt < max_retries
             THEN [made EXCEPT !.pc = "sleep"]
             ELSE \* raise, caught at line 809
                  [made EXCEPT !.pc = "done",
                               !.returned = Some(reply_after_error(chat.message))]
    /\ UNCHANGED pricing_vars

\* lines 784-785: asyncio.sleep(retry_delay) over, the delay doubled, and
\* the loop at its next attempt
Sleep ==
    /\ chat.pc = "sleep"
    /\ chat' = [chat EXCEPT !.pc = "call", !.slept = Append(@, chat.retry_delay),
                            !.retry_delay = @ * 2, !.attempt = @ + 1]
    /\ UNCHANGED pricing_vars

InitChat ==
    /\ store = <<>>
    /\ artifacts_loaded = TRUE
    /\ req = [p \in Procs |-> Idle]
    /\ responses = <<>>
    /\ accepted = 0
    /\ faults = 0
    /\ grid_memo = <<>>
    /\ call = NoCall
    /\ chat = NoChat

NextChat ==
    \/ \E message \in ChatMessages, has_model \in BOOLEAN : StartChat(message, has_model)
    \/ \E outcome \in GeminiOutcomes : CallGemini(outcome)
    \/ Sleep

SpecChat == InitChat /\ [][NextChat]_vars

(***************************************************************************)
(* Properties                                                              *)
(***************************************************************************)
\* the responses that carry a result
Results == {i \in 1..Len(responses) : responses[i].pc = "result"}

\* base_price > 0 and past_sales_volume >= 0
ValidInput(inp) ==
    RGt(inp.base_price, <<0, 1>>) /\ RGe(inp.past_sales_volume, <<0, 1>>)

\* base_price * (1 - discount / 100), exactly
ExactPrice(base_price, discount) ==
    <<base_price[1] * (100 * discount[2] - discount[1]), base_price[2] * 100 * discount[2]>>
SameNumber(a, b) == a[1] * b[2] = b[1] * a[2]

\* C1: every result returned for a valid input (base_price > 0,
\* past_sales_volume >= 0) has 5.0 <= optimal_discount <= 30.0, whatever the
\* table held when it was read.
C1_DiscountInRange ==
    \A i \in Results :
        ValidInput(responses[i].inp) =>
            /\ RGe(responses[i].result.optimal_discount, <<5, 1>>)
            /\ RLe(responses[i].result.optimal_discount, <<30, 1>>)

\* a result for a valid input whose grid discount plus adjustment exceeded 30
C1_Witness ==
    \E i \in Results :
        /\ ValidInput(responses[i].inp)
        /\ RGt(RAdd(responses[i].result.model_optimal_discount,
                    responses[i].result.discount_adjustment), <<30, 1>>)

\* C2 as stated: the returned price equals base_price * (1 - returned
\* discount / 100) exactly.
C2_PriceExact ==
    \A i \in Results :
        SameNumber(responses[i].result.final_selling_price,
                   ExactPrice(responses[i].inp.base_price,
                              responses[i].result.optimal_discount))

\* C2 amended: the returned price equals base_price * (1 - returned
\* discount / 100) rounded to 2 decimals.
C2_PriceRounded ==
    \A i \in Results :
        responses[i].result.final_selling_price =
            RRound2(ExactPrice(responses[i].inp.base_price,
                               responses[i].result.optimal_discount))

\* a result whose exact price has more than 2 decimals
C2_Witness ==
    \E i \in Results :
        ~SameNumber(responses[i].result.final_selling_price,
                    ExactPrice(responses[i].inp.base_price,
                               responses[i].result.optimal_discount))

\* C3 as stated: every returned price is at most base_price and at least
\* 70% of base_price.
C3_PriceWithinBounds ==
    \A i \in Results :
        /\ RLe(responses[i].result.final_selling_price, responses[i].inp.base_price)
        /\ RGe(responses[i].result.final_selling_price,
               RMul(<<7, 10>>, responses[i].inp.base_price))

\* C4 as stated: every returned expected revenue is >= 0.
C4_RevenueNonNegative ==
    \A i \in Results : RGe(responses[i].result.expected_revenue, <<0, 1>>)

\* the rows that the requests answered with a result and a successful insert
\* wrote, in the order of the answers
RowOf(e) ==
    [product_id |-> e.inp.product_id, product_name |-> e.inp.product_name,
     base_price |-> e.inp.base_price, category |-> e.inp.category,
     past_sales_volume |-> e.inp.past_sales_volume,
     optimal_discount |-> e.result.optimal_discount,
     expected_revenue |-> e.result.expected_revenue,
     final_selling_price |-> e.result.final_selling_price,
     confidence |-> e.result.confidence]
SavedAnswers == SelectSeq(responses, LAMBDA e : e.pc = "result" /\ e.saved)

\* C5 as stated: the number of rows added equals the number of requests that
\* returned a result.
C5_OneRowPerResult == Len(store) = Cardinality(Results)

\* C5 amended: the rows added are exactly one per request that returned a
\* result and whose insert succeeded, each carrying the request's fields and
\* the result's discount, revenue, price and confidence; a request answered
\* with an error, or whose insert failed, has added none.
C5_OneRowPerSavedResult ==
    /\ Len(store) = Len(SavedAnswers)
    /\ \A k \in 1..Len(store) : store[k] = RowOf(SavedAnswers[k])

\* a result was returned although its insert had failed, and another was saved
C5_Witness ==
    /\ \E i \in Results : ~responses[i].saved
    /\ \E i \in Results : responses[i].saved

\* C6: the table is append-only: no step removes or changes a row, and the
\* number of rows never decreases.
C6_AppendOnly ==
    [][/\ Len(store') >= Len(store)
       /\ \A k \in 1..Len(store) : store'[k] = store[k]]_vars

\* a second row was inserted for a product that already had one
C6_Witness ==
    /\ Len(store) = 2
    /\ store[1].product_id = store[2].product_id

\* C7 as stated: a request whose scorer call raised is not aborted: it is
\* answered with a result.
C7_ScorerFailureTolerated ==
    \A i \in 1..Len(responses) : responses[i].scorer_failed => responses[i].pc = "result"

\* C8: a failed read of the table is never raised to the caller, and the
\* statistics of the failed read keep their defaults: a request is answered
\* with an error only if the scorer raised or the artifacts are missing, and
\* a request whose reads failed but whose scorer answered receives a result
\* computed from same-name count 0 (no sales, no prices), percentile 50.
C8_ReadFailureDefaults ==
    \A i \in 1..Len(responses) :
        LET e == responses[i] IN
        /\ "same_name" \in e.failed_reads =>
               /\ e.same_name.same_name_count = 0
               /\ e.same_name.same_name_sales = <<>>
               /\ e.same_name.same_name_prices = <<>>
        /\ "cat_sales" \in e.failed_reads => e.sales_volume_percentile = <<50, 1>>
        /\ "cat_prices" \in e.failed_reads => e.price_percentile = <<50, 1>>
        /\ e.pc = "error" => e.scorer_failed \/ ~artifacts_loaded

\* a result was returned to a request one of whose reads had failed
C8_Witness ==
    \E i \in Results : responses[i].failed_reads # {}

\* C9 as stated: a request with a negative base_price is answered with an
\* error and adds no row.
C9_NegativePriceRejected ==
    /\ \A i \in 1..Len(responses) :
           RLt(responses[i].inp.base_price, <<0, 1>>) => responses[i].pc = "error"
    /\ \A k \in 1..Len(store) : ~RLt(store[k].base_price, <<0, 1>>)

\* C10: two requests with the same body whose reads saw the same rows (none
\* of them failing) are answered with the same discount, revenue, price and
\* confidence, whatever the dates their temporal context was defaulted from.
C10_Deterministic ==
    \A i, j \in Results :
        /\ responses[i].inp = responses[j].inp
        /\ responses[i].seen = responses[j].seen
        /\ responses[i].failed_reads = {} /\ responses[j].failed_reads = {}
        => /\ responses[i].result.optimal_discount = responses[j].result.optimal_discount
           /\ responses[i].result.expected_revenue = responses[j].result.expected_revenue
           /\ responses[i].result.final_selling_price =
                  responses[j].result.final_selling_price
           /\ responses[i].result.confidence = responses[j].result.confidence

\* two results for the same body and the same rows, defaulted at different dates
C10_Witness ==
    \E i, j \in Results :
        /\ responses[i].inp = responses[j].inp
        /\ responses[i].seen = responses[j].seen
        /\ responses[i].failed_reads = {} /\ responses[j].failed_reads = {}
        /\ responses[i].inp.month = None
        /\ responses[i].month # responses[j].month

\* C12 as stated: for volumes v1 < v2 among 0, 1, 100, 101, 500, 501 at one
\* base price, the elasticity magnitude before the category multiplier at v2
\* is at most the one at v1, and strictly smaller from 0 to 501.
C12_TiersMonotone ==
    Returned("tier_elasticity") =>
        /\ RLe(RAbs(call.value[1][2]), RAbs(call.value[1][1]))
        /\ (call.args.v1 = <<0, 1>> /\ call.args.v2 = <<501, 1>>) =>
               RLt(RAbs(call.value[1][2]), RAbs(call.value[1][1]))

\* C12 amended: the magnitude is 2.3 x price_factor at volume 0, 2.5 x at 1
\* and 100, 2.2 x at 101 and 500, 2.0 x at 501: it rises from volume 0 to a
\* positive volume up to 100, never increases between positive volumes, and
\* is strictly smaller at 501 than at 0.
C12_TiersMonotoneFromOne ==
    Returned("tier_elasticity") =>
        LET m1 == RAbs(call.value[1][1])
            m2 == RAbs(call.value[1][2])
            v1 == call.args.v1
            v2 == call.args.v2
        IN  /\ RGt(v1, <<0, 1>>) => RLe(m2, m1)
            /\ (v1 = <<0, 1>> /\ RLe(v2, <<100, 1>>)) => RGt(m2, m1)
            /\ (v1 = <<0, 1>> /\ RGt(v2, <<100, 1>>)) => RLt(m2, m1)
            /\ (RLe(v1, <<100, 1>>) /\ RGt(v1, <<0, 1>>) /\ RGt(v2, <<100, 1>>)) => RLt(m2, m1)

\* the magnitudes at volumes 0 and 1 were compared
C12_Witness ==
    /\ Returned("tier_elasticity")
    /\ call.args.v1 = <<0, 1>> /\ call.args.v2 = <<1, 1>>
    /\ RGt(RAbs(call.value[1][2]), RAbs(call.value[1][1]))

\* C11: when no candidate has a positive revenue (base_price <= 0: every
\* revenue is base_price x (1 - d/100) x a positive quantity), the result is
\* discount 0.0, confidence Low, price = base_price and revenue = base_price x
\* baseline volume (0 for base_price 0), with no adjustment and no clamp,
\* whatever the reads of the table returned.
C11_DegenerateGrid ==
    (Returned("optimal_discount_result") /\ RLe(call.args.inp.base_price, <<0, 1>>)) =>
        LET r == call.value[1]
            inp == call.args.inp
        IN  /\ r.optimal_discount = <<0, 1>>
            /\ r.confidence = "Low"
            /\ SameNumber(r.final_selling_price, inp.base_price)
            /\ SameNumber(r.expected_revenue,
                          RMul(inp.base_price, base_quantity(inp.past_sales_volume)))
            /\ inp.base_price = <<0, 1>> => r.expected_revenue = <<0, 1>>
            /\ r.discount_adjustment = <<0, 1>>

\* base_price 0 met same-name rows with sales and a category price percentile
\* above 75, which would have moved a discount of the grid
C11_Witness ==
    /\ Returned("optimal_discount_result")
    /\ call.args.inp.base_price = <<0, 1>>
    /\ call.args.st.same_name_sales # <<>>
    /\ RGt(call.args.price_percentile, <<75, 1>>)
    /\ call.value[1].degenerate

\* the brackets and terms as the adjustment rules state them
BracketA(v, min, avg, max) ==
    IF v = <<0, 1>> THEN <<6, 1>>
    ELSE IF RLt(v, min) THEN <<5, 1>>
    ELSE IF RLt(RMul(<<2, 1>>, v), avg) THEN <<4, 1>>
    ELSE IF RLt(v, avg) THEN <<5, 2>>
    ELSE IF RLt(RMul(<<2, 1>>, v), RMul(<<3, 1>>, avg)) THEN <<1, 2>>
    ELSE IF RGe(v, max) THEN <<-4, 1>>
    ELSE <<-5, 2>>
SameNamePriceTerm(price, prices) ==
    IF prices = <<>> THEN <<0, 1>>
    ELSE LET avg == RDiv(RSum(prices), <<Len(prices), 1>>)
         IN  IF \A i \in 1..Len(prices) : RGt(price, prices[i]) THEN <<5, 2>>
             ELSE IF RGt(RMul(<<5, 1>>, price), RMul(<<6, 1>>, avg)) THEN <<3, 2>>
             ELSE IF RLt(RMul(<<5, 1>>, price), RMul(<<4, 1>>, avg)) THEN <<-1, 1>>
             ELSE <<0, 1>>
BracketB(p) ==
    IF RLt(p, <<25, 1>>) THEN <<4, 1>>
    ELSE IF RLt(p, <<50, 1>>) THEN <<2, 1>>
    ELSE IF RGe(p, <<75, 1>>) THEN <<-3, 1>>
    ELSE <<0, 1>>
CategoryPriceTerm(p) ==
    IF RGt(p, <<75, 1>>) THEN <<2, 1>> ELSE IF RLt(p, <<25, 1>>) THEN <<-3, 2>> ELSE <<0, 1>>
\* some same-name row of another product id has a positive sales volume
HasSameNameSales(st) == st.same_name_count > 0 /\ st.same_name_sales # <<>>
BranchAdjustment(base_price, v, st, p) ==
    IF HasSameNameSales(st)
    THEN RAdd(BracketA(v, st.same_name_sales_min, st.same_name_sales_avg,
                       st.same_name_sales_max),
              SameNamePriceTerm(base_price, st.same_name_prices))
    ELSE BracketB(p)

C19_BranchB ==
    Returned("discount_adjustment") =>
        LET a == call.args IN
        IF HasSameNameSales(a.st)
        THEN call.value[1] =
                 RAdd(BranchAdjustment(a.base_price, a.past_sales_volume, a.st, <<50, 1>>),
                      CategoryPriceTerm(a.price_percentile))
        ELSE /\ call.value[1] =
                    RAdd(BracketB(a.sales_volume_percentile),
                         CategoryPriceTerm(a.price_percentile))
             /\ (a.sales_volume_percentile = <<50, 1>> /\ a.price_percentile = <<50, 1>>) =>
                    call.value[1] = <<0, 1>>

\* same-name rows exist but none has positive sales, and the category
\* percentile is below 25
C19_Witness ==
    /\ Returned("discount_adjustment")
    /\ call.args.st.same_name_count > 0 /\ call.args.st.same_name_sales = <<>>
    /\ RLt(call.args.sales_volume_percentile, <<25, 1>>)
    /\ call.args.price_percentile = <<50, 1>>
    /\ call.value[1] = <<4, 1>>

\* max(5, min(30, d)) written out
Clamp5To30(d) ==
    IF RLt(d, <<5, 1>>) THEN <<5, 1>> ELSE IF RGt(d, <<30, 1>>) THEN <<30, 1>> ELSE d

\* C20: on a grid that is not degenerate the returned discount is
\* clamp(grid discount + branch adjustment + category price term, 5, 30), the
\* category price term being +2.0 for a price percentile > 75, -1.5 for one
\* < 25 and 0 otherwise, after either branch.
C20_FinalDiscount ==
    (Returned("optimal_discount_result") /\ RGt(call.args.inp.base_price, <<0, 1>>)) =>
        LET a == call.args
            r == call.value[1]
        IN  /\ ~r.degenerate
            /\ r.model_optimal_discount =
                   grid_memo[GridKey(a.inp, a.predicted)].model_optimal_discount
            /\ r.optimal_discount =
                   Clamp5To30(RAdd(r.model_optimal_discount,
                       RAdd(BranchAdjustment(a.inp.base_price, a.inp.past_sales_volume,
                                             a.st, a.sales_volume_percentile),
                            CategoryPriceTerm(a.price_percentile))))

\* a discount that the clamp left alone although the price term was added
C20_Witness ==
    /\ Returned("optimal_discount_result")
    /\ ~call.value[1].degenerate
    /\ RGt(call.args.price_percentile, <<75, 1>>)
    /\ RLt(call.value[1].optimal_discount, <<30, 1>>)
    /\ RGt(call.value[1].optimal_discount, <<5, 1>>)

\* the largest and the second largest of a list of revenues (the largest
\* again when it occurs twice or the list has one entry)
Largest(q) == CHOOSE m \in {q[i] : i \in 1..Len(q)} : \A i \in 1..Len(q) : q[i] <= m
SecondLargest(q) ==
    LET m == Largest(q)
        others == {q[i] : i \in 1..Len(q)} \ {m}
    IN  IF Cardinality({i \in 1..Len(q) : q[i] = m}) > 1 \/ others = {} THEN m
        ELSE CHOOSE x \in others : \A y \in others : y <= x
\* gap > t for revenues in millionths:
\* (max - second) / (second + 1e-6) x 100 > t
GapExceeds(q, t) == (Largest(q) - SecondLargest(q)) * 100 > t * (SecondLargest(q) + 1)

\* C13: with gap = (max - second_max) / (second_max + 1e-6) x 100 over the
\* revenues of the grid, the confidence is High iff gap > 10, Medium iff
\* 5 < gap <= 10, Low iff gap <= 5; the result carries the confidence of the
\* grid, whatever the adjustment did to the discount.
C13_ConfidenceBuckets ==
    /\ Returned("confidence_of") =>
           call.value[1] =
               IF GapExceeds(call.args.revenues, 10) THEN "High"
               ELSE IF GapExceeds(call.args.revenues, 5) THEN "Medium"
               ELSE "Low"
    /\ (Returned("optimal_discount_result") /\ ~call.value[1].degenerate) =>
           call.value[1].confidence =
               grid_memo[GridKey(call.args.inp, call.args.predicted)].confidence

\* a gap of exactly 10 percent was classified Medium
C13_Witness ==
    /\ Returned("confidence_of")
    /\ (Largest(call.args.revenues) - SecondLargest(call.args.revenues)) * 100
           = 10 * (SecondLargest(call.args.revenues) + 1)
    /\ call.value[1] = "Medium"

\* C16 as stated: the candidates evaluated are exactly 0.0, 0.5, ..., 30.0:
\* 61 of them in ascending order, none above 30.0, so that the discount the
\* grid search selects is within [0, 30].
C16_GridOf61 ==
    Returned("grid_search") =>
        LET evaluated == call.value[1].evaluated IN
        /\ Len(evaluated) = 61
        /\ \A i \in 1..Len(evaluated) :
               /\ SameNumber(evaluated[i], <<i - 1, 2>>)
               /\ RLe(evaluated[i], <<30, 1>>)
        /\ RGe(call.value[1].grid.model_optimal_discount, <<0, 1>>)
        /\ RLe(call.value[1].grid.model_optimal_discount, <<30, 1>>)

\* the primary revenues of all candidates for the arguments of a call
PrimaryRevenues(a) ==
    SelectSeq([i \in 1..Len(discount_range) |->
                  expected_revenue_direct(a.base_price,
                      base_elasticity(a.base_price, a.category, a.past_sales_volume),
                      base_quantity(a.past_sales_volume), discount_range[i])],
              LAMBDA x : TRUE)

\* C17: the discount the grid search selects is a candidate whose primary
\* revenue (discounted price x expected quantity) is the maximum, and among
\* candidates of equal maximal revenue the first in ascending grid order.
C17_ArgmaxFirst ==
    /\ (Returned("grid_search") /\ ~call.value[1].grid.empty) =>
           LET revs == PrimaryRevenues(call.args)
               k == CHOOSE i \in 1..Len(discount_range) :
                        discount_range[i] = call.value[1].grid.model_optimal_discount
           IN  /\ \A i \in 1..Len(revs) : ~WGt(revs[i], revs[k])
               /\ \A i \in 1..(k - 1) : WGt(revs[k], revs[i])
    /\ Returned("idxmax") =>
           LET q == call.args.revenues IN
           /\ q[call.value[1]] = Largest(q)
           /\ \A i \in 1..(call.value[1] - 1) : q[i] < Largest(q)

\* two rows tie for the maximum and the first of them was selected
C17_Witness ==
    /\ Returned("idxmax")
    /\ Cardinality({i \in 1..Len(call.args.revenues) :
                       call.args.revenues[i] = Largest(call.args.revenues)}) > 1
    /\ call.value[1] = 1

\* C14 as stated: no request blocks indefinitely, also when a call of the
\* scorer never returns: a request that a worker thread has taken up and
\* not yet answered always has a next step towards its result or error.
C14_NoRequestBlocked ==
    \A p \in Procs : req[p].pc # "idle" => CanStep(p)

\* the lowered message contains a keyword of one of the classes that the
\* claim sets aside
HasOtherKeyword(message_lower) ==
    \/ any_keyword(message_lower, cart_keywords)
    \/ any_keyword(message_lower, wishlist_keywords)
    \/ any_keyword(message_lower, account_keywords)
    \/ any_keyword(message_lower, reviews_keywords)
    \/ any_keyword(message_lower, inventory_keywords)
    \/ any_keyword(message_lower, discount_keywords)
    \/ any_keyword(message_lower, churn_keywords)

\* C15 as stated: detect_intent returns 'recommendation' for the documented
\* test message 'What products do you recommend?' and for every message that
\* contains a recommendation keyword and no cart, wishlist, account, reviews,
\* inventory, discount or churn keyword.
C15_RecommendationIntent ==
    Returned("detect_intent") =>
        LET message_lower == lower(call.args.message)
        IN  (\/ call.args.message = "What products do you recommend?"
             \/ /\ any_keyword(message_lower, recommendation_keywords)
                /\ ~HasOtherKeyword(message_lower))
                => call.value = Some("recommendation")

\* base_price x (1 - d/100) x baseline volume x (1 + |elasticity| x d/100)
\* x (1 + (d/100) x 1.2 x clamp(base_price/40, 0.8, 1.5)), rounded to cents
RevenueAt(inp, d) ==
    LET x == RDiv(d, <<100, 1>>)
        e == RAbs(base_elasticity(inp.base_price, inp.category, inp.past_sales_volume))
        s == RDiv(inp.base_price, <<40, 1>>)
        clamped == IF RLt(s, <<4, 5>>) THEN <<4, 5>> ELSE IF RGt(s, <<3, 2>>) THEN <<3, 2>> ELSE s
    IN  WRound2(WMul(WMul(Wide(RMul(inp.base_price, RSub(<<1, 1>>, x))),
                          Wide(base_quantity(inp.past_sales_volume))),
                     WMul(Wide(RAdd(<<1, 1>>, RMul(e, x))),
                          Wide(RAdd(<<1, 1>>, RMul(RMul(x, <<6, 5>>), clamped))))))

\* C21: on a grid that is not degenerate the reported expected revenue is
\* the revenue of the formulas of the grid at the reported (adjusted,
\* clamped) discount d, to cents; when d is not the discount of the candidate
\* that won the search it is not that candidate's revenue.
C21_RevenueRecomputed ==
    (Returned("optimal_discount_result") /\ ~call.value[1].degenerate) =>
        LET r == call.value[1] IN
        /\ r.expected_revenue = RevenueAt(call.args.inp, r.optimal_discount)
        /\ r.optimal_discount # r.model_optimal_discount =>
               r.expected_revenue # RevenueAt(call.args.inp, r.model_optimal_discount)

\* the adjustment moved the discount off the candidate that won the search
\* and the clamp did not bring it back
C21_Witness ==
    /\ Returned("optimal_discount_result")
    /\ ~call.value[1].degenerate
    /\ call.value[1].discount_adjustment # <<0, 1>>
    /\ RLt(call.value[1].optimal_discount, <<30, 1>>)
    /\ call.value[1].optimal_discount # call.value[1].model_optimal_discount

\* the sum of the first n entries of a sequence of integers over 1
RECURSIVE SumOf(_, _)
SumOf(q, n) == IF n = 0 THEN 0 ELSE q[n][1] + SumOf(q, n - 1)
\* the positive entries of a sequence of numbers, in order
Positive(q) == SelectSeq(q, LAMBDA x : RGt(x, <<0, 1>>))

\* C22: the same-name statistics are computed from rows of the request's
\* product name and of another product id only, from min(50, number of such
\* rows) of them, none of the rows left out being created later than a row
\* taken; the count is the number of rows taken, and the average, minimum and
\* maximum of the sales (the prices kept for the price comparison) are those
\* of the positive values among the rows taken, 0 when there are none.
C22_SameNameStatistics ==
    Returned("same_name_stats") =>
        LET table == call.args.table
            fetched == call.value[1].fetched
            st == call.value[1].stats
            matching == {i \in 1..Len(table) :
                            /\ table[i].product_name = call.args.product_name
                            /\ table[i].product_id # call.args.product_id}
            taken == {i \in matching : \E k \in 1..Len(fetched) : fetched[k] = table[i]}
            prices == Positive([k \in 1..Len(fetched) |-> fetched[k].base_price])
        IN  \A sales \in {Positive([k \in 1..Len(fetched) |-> fetched[k].past_sales_volume])} :
            /\ \A k \in 1..Len(fetched) : \E i \in matching : fetched[k] = table[i]
            /\ Cardinality(taken) = Len(fetched)
            /\ Len(fetched) = IF Cardinality(matching) < 50 THEN Cardinality(matching) ELSE 50
            /\ \A i \in matching \ taken, j \in taken : table[i].createdAt <= table[j].createdAt
            /\ st.same_name_count = Len(fetched)
            /\ st.same_name_sales = sales
            /\ st.same_name_prices = prices
            /\ IF sales = <<>>
               THEN /\ st.same_name_sales_avg = <<0, 1>>
                    /\ st.same_name_sales_min = <<0, 1>>
                    /\ st.same_name_sales_max = <<0, 1>>
               ELSE /\ SameNumber(RMul(st.same_name_sales_avg, <<Len(sales), 1>>),
                                  <<SumOf(sales, Len(sales)), 1>>)
                    /\ \E k \in 1..Len(sales) : sales[k] = st.same_name_sales_min
                    /\ \E k \in 1..Len(sales) : sales[k] = st.same_name_sales_max
                    /\ \A k \in 1..Len(sales) :
                           /\ RLe(st.same_name_sales_min, sales[k])
                           /\ RGe(st.same_name_sales_max, sales[k])

\* more rows of the name than the limit: a row left out has sales below the
\* reported minimum and a row of the request's own product has sales above
\* the reported maximum
C22_Witness ==
    /\ Returned("same_name_stats")
    /\ call.value[1].stats.same_name_count = 50
    /\ \E i \in 1..Len(call.args.table) :
           /\ call.args.table[i].product_id # call.args.product_id
           /\ call.args.table[i].product_name = call.args.product_name
           /\ RGt(call.args.table[i].past_sales_volume, <<0, 1>>)
           /\ RLt(call.args.table[i].past_sales_volume,
                  call.value[1].stats.same_name_sales_min)
    /\ \E i \in 1..Len(call.args.table) :
           /\ call.args.table[i].product_id = call.args.product_id
           /\ RGt(call.args.table[i].past_sales_volume,
                  call.value[1].stats.same_name_sales_max)

\* the positive numbers among the values of the rows of a category (reduced
\* fractions: equal numbers are equal pairs)
PositiveOf(table, category, field) ==
    {table[i][field] : i \in {j \in 1..Len(table) :
         table[j].category = category /\ table[j][field][1] > 0}}
\* p = 100 x (number of values below x) / (number of values), 50 without values
IsRank(p, values, x) ==
    IF values = {} THEN p = <<50, 1>>
    ELSE p[1] * Cardinality(values) = 100 * p[2] * Cardinality({y \in values : y[1] * x[2] < x[1] * y[2]})

\* C23: the category sales percentile is 100 x (number of distinct positive
\* sales volumes of the category strictly below past_sales_volume) / (number
\* of distinct positive sales volumes of the category), the price percentile
\* the same rank of base_price among the distinct positive base prices; each
\* is within [0, 100], and 50 when the category has no such value.
C23_PercentileRank ==
    Returned("percentile_rank") =>
        LET a == call.args
            r == call.value[1]
        IN  /\ IsRank(r.sales_volume_percentile,
                      PositiveOf(a.table, a.category, "past_sales_volume"), a.past_sales_volume)
            /\ IsRank(r.price_percentile,
                      PositiveOf(a.table, a.category, "base_price"), a.base_price)
            /\ RGe(r.sales_volume_percentile, <<0, 1>>)
            /\ RLe(r.sales_volume_percentile, <<100, 1>>)
            /\ RGe(r.price_percentile, <<0, 1>>)
            /\ RLe(r.price_percentile, <<100, 1>>)

\* a sales volume that two rows of the category hold is counted once, and
\* a volume equal to the request's is not below it
C23_Witness ==
    /\ Returned("percentile_rank")
    /\ \E i, j \in 1..Len(call.args.table) :
           /\ i # j
           /\ call.args.table[i].category = call.args.category
           /\ call.args.table[j].category = call.args.category
           /\ call.args.table[i].past_sales_volume = call.args.table[j].past_sales_volume
           /\ RLt(call.args.table[i].past_sales_volume, call.args.past_sales_volume)
    /\ \E i \in 1..Len(call.args.table) :
           /\ call.args.table[i].category = call.args.category
           /\ call.args.table[i].past_sales_volume = call.args.past_sales_volume
    /\ call.value[1].sales_volume_percentile = <<50, 1>>

\* clamp(x, lo, hi) and max(x, y) written out
ClampTo(x, lo, hi) == IF RLt(x, lo) THEN lo ELSE IF RGt(x, hi) THEN hi ELSE x
LargerOf(x, y) == IF RGe(x, y) THEN x ELSE y

\* C24: with price_factor = clamp(base_price/50, 0.5, 1.5) the elasticity
\* model returns -2.0 x price_factor and max(15, volume/40) for volume > 500,
\* -2.2 x price_factor and max(8, volume/25) for 100 < volume <= 500,
\* -2.5 x price_factor and max(5, volume/15) for 0 < volume <= 100,
\* -2.3 x price_factor and 6.0 for volume = 0: a function of base_price and
\* volume alone, with nothing read from the table.
C24_ElasticityTiers ==
    Returned("elasticity_model") =>
        LET v == call.args.past_sales_volume
            pf == ClampTo(RDiv(call.args.base_price, <<50, 1>>), <<1, 2>>, <<3, 2>>)
            e == call.value[1].base_elasticity
            q == call.value[1].base_quantity
        IN  /\ RGt(v, <<500, 1>>) =>
                   /\ SameNumber(e, RMul(<<-2, 1>>, pf))
                   /\ SameNumber(q, LargerOf(<<15, 1>>, RDiv(v, <<40, 1>>)))
            /\ (RGt(v, <<100, 1>>) /\ RLe(v, <<500, 1>>)) =>
                   /\ SameNumber(e, RMul(<<-22, 10>>, pf))
                   /\ SameNumber(q, LargerOf(<<8, 1>>, RDiv(v, <<25, 1>>)))
            /\ (RGt(v, <<0, 1>>) /\ RLe(v, <<100, 1>>)) =>
                   /\ SameNumber(e, RMul(<<-25, 10>>, pf))
                   /\ SameNumber(q, LargerOf(<<5, 1>>, RDiv(v, <<15, 1>>)))
            /\ v = <<0, 1>> =>
                   /\ SameNumber(e, RMul(<<-23, 10>>, pf))
                   /\ SameNumber(q, <<6, 1>>)

\* the floor of a tier held at a volume just inside it, with the price
\* factor clamped at its upper bound
C24_Witness ==
    /\ Returned("elasticity_model")
    /\ call.args.past_sales_volume = <<101, 1>>
    /\ call.args.base_price = <<100, 1>>
    /\ call.value[1].base_quantity = <<8, 1>>
    /\ call.value[1].base_elasticity = <<-33, 10>>

\* C25: what the scorer returned does not reach the result: the grid search
\* and the result computed with one estimate of the scorer are those computed
\* with every other estimate, the request and what was read from the table
\* being the same (discount, revenue, price and confidence included).
C25_ScorerIgnored ==
    /\ Returned("grid_search") =>
           \A e \in ScorerEstimates : call.value[1].grid = grid_memo[GridKey(call.args, e)]
    /\ Returned("optimal_discount_result") =>
           \A e \in ScorerEstimates :
               call.value[1] =
                   optimal_discount_result(call.args.inp, call.args.st,
                       call.args.sales_volume_percentile, call.args.price_percentile,
                       grid_memo[GridKey(call.args.inp, e)])

\* a result on a grid that is not degenerate, computed while the scorer
\* returned an estimate of 1000 for every candidate (it could also return 0)
C25_Witness ==
    /\ Returned("optimal_discount_result")
    /\ call.args.predicted = 1000
    /\ \E e \in ScorerEstimates : e # call.args.predicted
    /\ ~call.value[1].degenerate
    /\ call.value[1].expected_revenue # <<1000, 1>>

\* the rows of the table at the places S, in the order of the table
RECURSIVE RowsAt(_, _)
RowsAt(S, i) ==
    IF i > Len(store) THEN <<>>
    ELSE (IF i \in S THEN <<store[i]>> ELSE <<>>) \o RowsAt(S, i + 1)

\* the result of the request of answer e evaluated alone on the table t
EvaluatedAlone(e, t) ==
    optimal_discount_result(e.inp,
        IF e.inp.product_name = "" THEN same_name_default
        ELSE same_name_stats(t, e.inp.product_name, e.inp.product_id),
        percentile_rank(category_sales(t, e.inp.category), e.inp.past_sales_volume),
        percentile_rank(category_prices(t, e.inp.category), e.inp.base_price),
        grid_memo[GridKey(e.inp, 0)])

\* C26 as stated: the result of every request whose reads succeeded equals
\* the result of evaluating the request alone on one single set of committed
\* rows: its same-name statistics and its two category percentiles fit one
\* and the same set.
C26_OneSnapshot ==
    \A i \in Results :
        responses[i].failed_reads = {} =>
            \E S \in SUBSET (1..Len(store)) :
                LET alone == EvaluatedAlone(responses[i], RowsAt(S, 1))
                IN  /\ responses[i].result.optimal_discount = alone.optimal_discount
                    /\ responses[i].result.expected_revenue = alone.expected_revenue
                    /\ responses[i].result.final_selling_price = alone.final_selling_price
                    /\ responses[i].result.confidence = alone.confidence

\* C26 amended: each statistic of a request fits the rows committed when its
\* read ran, three sets that one contains the next: the same-name statistics
\* the first s1 rows of the table, the category sales percentile the first
\* s2, the category price percentile the first s3, s1 <= s2 <= s3, all of
\* them committed before the request returned and wrote its own row; the
\* result is the evaluation on these statistics.
C26_ThreeSnapshots ==
    \A i \in Results :
        LET e == responses[i]
            s1 == e.seen[1]
            s2 == e.seen[2]
            s3 == e.seen[3]
        IN  e.failed_reads = {} =>
            /\ s1 <= s2 /\ s2 <= s3 /\ s3 <= Len(store)
            /\ e.saved => \E k \in (s3 + 1)..Len(store) : store[k] = RowOf(e)
            /\ e.same_name =
                   same_name_stats(SubSeq(store, 1, s1), e.inp.product_name, e.inp.product_id)
            /\ IsRank(e.sales_volume_percentile,
                      PositiveOf(SubSeq(store, 1, s2), e.inp.category, "past_sales_volume"),
                      e.inp.past_sales_volume)
            /\ IsRank(e.price_percentile,
                      PositiveOf(SubSeq(store, 1, s3), e.inp.category, "base_price"),
                      e.inp.base_price)
            /\ e.result =
                   [optimal_discount_result(e.inp, e.same_name, e.sales_volume_percentile,
                                            e.price_percentile, grid_memo[GridKey(e.inp, 0)])
                    EXCEPT !.product = e.inp.product_name]

\* a request read its same-name statistics before, and its category
\* percentiles after, the row of another product of its name was committed,
\* and the result it returned fits neither the table before nor the table after
C26_Witness ==
    \E i \in Results :
        /\ responses[i].failed_reads = {}
        /\ responses[i].seen[1] < responses[i].seen[2]
        /\ responses[i].same_name.same_name_count = 0
        /\ responses[i].sales_volume_percentile # <<50, 1>>
        /\ \A n \in 0..Len(store) :
               responses[i].result.optimal_discount #
                   EvaluatedAlone(responses[i], SubSeq(store, 1, n)).optimal_discount

\* C27: rows of the request's own product id enter none of its statistics,
\* so a request sent twice in a row, its reads all succeeding and no other
\* write between its first answer's row and its second reads, is answered
\* with the same result both times.
C27_SelfMatchesExcluded ==
    \A i \in Results, j \in Results :
        LET first == responses[i]
            second == responses[j]
            n == first.seen[2]
        IN  ( /\ i < j
              /\ first.inp = second.inp
              /\ first.inp.product_name # ""
              /\ first.failed_reads = {} /\ second.failed_reads = {}
              /\ first.saved
              /\ first.seen = <<n, n, n>>
              /\ second.seen = <<n + 1, n + 1, n + 1>>
              /\ store[n + 1] = RowOf(first) )
            => second.result = first.result

\* the candidates of the grid of a grid_search call
RowsOfCall ==
    revenue_predictions(call.args.base_price,
        base_elasticity(call.args.base_price, call.args.category, call.args.past_sales_volume),
        base_quantity(call.args.past_sales_volume), call.args.predicted)

\* C28: with candidates half a point apart, an elasticity magnitude of at
\* most 4.5 and a conversion coefficient of at most 1.8, the two best
\* candidates of a grid never differ by more than 5 percent of the second
\* best, so the confidence returned is always "Low".
C28_ConfidenceAlwaysLow ==
    /\ Returned("grid_search") =>
           /\ call.value[1].grid.confidence = "Low"
           /\ ~RGt(RAbs(base_elasticity(call.args.base_price, call.args.category,
                                        call.args.past_sales_volume)), <<9, 2>>)
           /\ ~RGt(RMul(<<6, 5>>, price_sensitivity(call.args.base_price)), <<9, 5>>)
           /\ Len(RowsOfCall) > 1 =>
                  ~WGt(WScale(RowsOfCall[idxmax(RowsOfCall)].revenue, 100),
                       WScale(second_largest(RowsOfCall), 105))
    /\ Returned("optimal_discount_result") => call.value[1].confidence = "Low"

\* a grid at the largest elasticity and conversion coefficient, whose best
\* candidate earns more than its second best
C28_Witness ==
    /\ Returned("grid_search")
    /\ RAbs(base_elasticity(call.args.base_price, call.args.category,
                            call.args.past_sales_volume)) = <<9, 2>>
    /\ RMul(<<6, 5>>, price_sensitivity(call.args.base_price)) = <<9, 5>>
    /\ Len(RowsOfCall) = Len(discount_range)
    /\ WGt(RowsOfCall[idxmax(RowsOfCall)].revenue, second_largest(RowsOfCall))
    /\ call.value[1].grid.confidence = "Low"

\* C29: for a positive base_price the candidate that wins the grid search is
\* never below 30.0; the adjustment is never below -6.5 (-4 and -1 from the
\* same-name comparison, -1.5 from the price position); so the discount
\* returned is at least 23.5 and never the lower bound 5.0 of the clamp.
C29_LowerClampUnreached ==
    /\ (Returned("grid_search") /\ RGt(call.args.base_price, <<0, 1>>)) =>
           /\ ~call.value[1].grid.empty
           /\ RGe(call.value[1].grid.model_optimal_discount, <<30, 1>>)
    /\ Returned("discount_adjustment") => RGe(call.value[1], <<-13, 2>>)
    /\ (Returned("optimal_discount_result") /\ RGt(call.args.inp.base_price, <<0, 1>>)) =>
           /\ RGe(call.value[1].model_optimal_discount, <<30, 1>>)
           /\ RGe(call.value[1].discount_adjustment, <<-13, 2>>)
           /\ RGe(call.value[1].optimal_discount, <<47, 2>>)
           /\ call.value[1].optimal_discount # <<MinDiscount, 1>>

\* the smallest grid optimum 30.0 met the largest downward adjustment -6.5:
\* 23.5 returned
C29_Witness ==
    /\ Returned("optimal_discount_result")
    /\ RGt(call.args.inp.base_price, <<0, 1>>)
    /\ call.value[1].model_optimal_discount = <<30, 1>>
    /\ call.value[1].discount_adjustment = <<-13, 2>>
    /\ call.value[1].optimal_discount = <<47, 2>>

\* the failures of GeminiErrors that report a rate limit
RateLimited(outcome) ==
    /\ ~outcome.ok
    /\ outcome.error \in {"429 Resource has been exhausted", "Resource Exhausted: quota",
                          "Rate Limit reached"}

\* C30: whatever the calls of the language model end as, a message costs at
\* most 3 calls; every call but the last failed with a rate-limit error, the
\* retries following waits of 2 s and then 4 s; no call follows a success or
\* another failure; and the caller is returned a text: the fallback text of
\* its message when the last call failed.
C30_BoundedRetries ==
    /\ Len(chat.outcomes) <= 3
    /\ \A k \in 1..(Len(chat.outcomes) - 1) : RateLimited(chat.outcomes[k])
    /\ chat.slept = SubSeq(<<2, 4>>, 1, Len(chat.slept))
    /\ chat.pc = "call" => Len(chat.slept) = Len(chat.outcomes)
    /\ chat.pc \in {"sleep", "done"} => Len(chat.slept) = Len(chat.outcomes) - 1
                                          \/ chat.outcomes = <<>>
    /\ chat.pc = "sleep" => RateLimited(chat.outcomes[Len(chat.outcomes)])
    /\ chat.pc = "done" =>
           /\ chat.returned # None
           /\ chat.outcomes # <<>> =>
                  LET last == chat.outcomes[Len(chat.outcomes)]
                  IN  /\ RateLimited(last) => Len(chat.outcomes) = 3
                      /\ ~last.ok => chat.returned = Some(reply_after_error(chat.message))

\* a message answered by the fallback text after three rate-limited calls
\* and waits of 2 s and 4 s
C30_Witness ==
    /\ chat.pc = "done"
    /\ Len(chat.outcomes) = 3
    /\ \A k \in 1..3 : RateLimited(chat.outcomes[k])
    /\ chat.slept = <<2, 4>>
    /\ chat.returned = Some(reply_after_error(chat.message))

====
